---- MODULE Spec2Model ----
(***************************************************************************)
(* Model of royal-lava: one guild Player (src/src/Player.js, the class of  *)
(* lines 31-1849), its Queue (src/src/Queue.js), the Node it is bound to   *)
(* (src/src/Node.js), the Manager's player map (src/src/Manager.js) and    *)
(* the REST calls in flight (Rest.updatePlayer / Rest.destroyPlayer).      *)
(*                                                                         *)
(* JavaScript runs a handler to its next await without interruption, so    *)
(* one action is the code from an entry point (a caller command, a frame   *)
(* of the node's socket, a platform voice callback, a timer, a REST        *)
(* response) up to the point where every call it made has either returned  *)
(* or is waiting for a REST response.  A REST call in flight is a task     *)
(* record holding the locals its continuation needs.                       *)
(***************************************************************************)
EXTENDS Integers, Sequences, FiniteSets

VARIABLES
    pl,       \* the Player object (with its Queue in pl.q)
    nodes,    \* Node objects: connected, sessionId, players (guild registered)
    reg,      \* Manager.players has an entry for the guild
    promise,  \* state of the promise returned by the last accepted connect()
    inflight, \* REST requests awaiting their response, with their continuations
    srv,      \* the audio server's player for the guild: the track it plays
    evq,      \* event frames the server has sent on the socket, not yet handled
    gw,       \* the chat platform's gateway: the voice channel it has the bot in
              \* (ch) and the voice callbacks it has yet to deliver (q)
    log,      \* what the last step did: its label, then outputs in order
    mgr,      \* the Manager: userId is set, explicitDisconnect, the order of its node map
    used      \* how many caller commands (calls) and outside events (env) happened

vars == <<pl, nodes, reg, promise, inflight, srv, evq, gw, log, mgr, used>>

----------------------------------------------------------------------------
(* Bounds of the model *)
MaxQueue == 2
MaxHistory == 2
MaxInflight == 2
MaxEvq == 2
MaxGw == 3
MaxCalls == 3
MaxEnv == 1
TrackLength == 1  \* length of a track, in units of the position
MaxTries == 2     \* options.reconnect.maxTries of the nodes
MaxPenalty == 1   \* the largest penalty a stats frame gives a node
MaxNodeEnv == 4   \* socket closes the environment causes
MaxStale == 1     \* sockets let go of whose close event is still to come
MaxProgCalls == 2 \* commands of the caller in the queue progression runs

(* Program constants *)
HistoryLimit == 20
MaxVolume == 1000
InitialVolume == 100
InitialDelay == 2 \* options.reconnect.initialDelay
MaxDelay == 3     \* options.reconnect.maxDelay, scaled to cap the second attempt
PermanentCodes == {"4004", "4005", "4006", "4009", "4015", "4016"}
LOOP_NONE == 0
LOOP_TRACK == 1
LOOP_QUEUE == 2

NULL == "null"
Tracks == {"A", "B"}
Nodes == {"n1"}
Channels == {"c1", "c2"}
VSessions == {"v1", "v2"}

(* The methods class Queue defines.  Player.js calls others (peek,          *)
(* addToHistory, removeAt, buildTrackFromEncoded, ...): calling a method    *)
(* that is not there throws a TypeError.                                    *)
QueueMethods == {"add", "poll", "remove", "clear", "shuffle", "setLoop"}

B2S(b) == IF b THEN "true" ELSE "false"
E(t, a, b) == [t |-> t, a |-> a, b |-> b]

----------------------------------------------------------------------------
(* Queue *)

NewQueue == [tracks |-> <<>>, previousTracks |-> <<>>, current |-> NULL,
             loop |-> LOOP_NONE]

\* a setter that puts the replaced track at the end of the history
QSetCurrentAtEnd(q, track) ==
    LET pushed == Append(q.previousTracks, q.current)
        hist == IF q.current # NULL
                THEN IF Len(pushed) > HistoryLimit
                     THEN SubSeq(pushed, 1, Len(pushed) - 1)
                     ELSE pushed
                ELSE q.previousTracks
    IN [q EXCEPT !.previousTracks = hist, !.current = track]

\* set current(track)
QSetCurrent(q, track) ==
    LET pushed == <<q.current>> \o q.previousTracks
        hist == IF q.current # NULL
                THEN IF Len(pushed) > HistoryLimit
                     THEN SubSeq(pushed, 1, Len(pushed) - 1)
                     ELSE pushed
                ELSE q.previousTracks
    IN [q EXCEPT !.previousTracks = hist, !.current = track]

\* add(track, position) with a single (non-array) track; isNum is
\* typeof position === 'number'
QAdd(q, track, isNum, position) ==
    IF isNum /\ position >= 0 /\ position <= Len(q.tracks)
    THEN [q EXCEPT !.tracks = SubSeq(@, 1, position) \o <<track>>
                               \o SubSeq(@, position + 1, Len(@))]
    ELSE [q EXCEPT !.tracks = Append(@, track)]

\* a poll() that drops the current track in QUEUE mode
QPollNoRequeue(q) ==
    IF q.loop = LOOP_TRACK /\ q.current # NULL
    THEN [q |-> q, ret |-> q.current]
    ELSE LET next == IF q.tracks = <<>> THEN NULL ELSE Head(q.tracks)
             t2 == IF q.tracks = <<>> THEN <<>> ELSE Tail(q.tracks)
         IN [q |-> QSetCurrent([q EXCEPT !.tracks = t2], next), ret |-> next]

\* poll(): the queue afterwards and the value returned
QPoll(q) ==
    IF q.loop = LOOP_TRACK /\ q.current # NULL
    THEN [q |-> q, ret |-> q.current]
    ELSE LET t1 == IF q.loop = LOOP_QUEUE /\ q.current # NULL
                   THEN Append(q.tracks, q.current)
                   ELSE q.tracks
             next == IF t1 = <<>> THEN NULL ELSE Head(t1)
             t2 == IF t1 = <<>> THEN <<>> ELSE Tail(t1)
         IN [q |-> QSetCurrent([q EXCEPT !.tracks = t2], next), ret |-> next]

\* clear()
QClear(q) == [q EXCEPT !.tracks = <<>>, !.previousTracks = <<>>, !.current = NULL]

QIsEmpty(q) == q.tracks = <<>> /\ q.current = NULL

\* add(track, position) with an array of tracks
QAddAll(q, ts, isNum, position) ==
    IF isNum /\ position >= 0 /\ position <= Len(q.tracks)
    THEN [q EXCEPT !.tracks = SubSeq(@, 1, position) \o ts \o SubSeq(@, position + 1, Len(@))]
    ELSE [q EXCEPT !.tracks = @ \o ts]

\* tracks.splice(index, 1), index counted from 0
SpliceOut(ts, index) == SubSeq(ts, 1, index) \o SubSeq(ts, index + 2, Len(ts))

\* remove(index): the queue afterwards and the track returned
QRemoveAt(q, index) ==
    IF index >= 0 /\ index < Len(q.tracks)
    THEN [q |-> [q EXCEPT !.tracks = SpliceOut(@, index)], ret |-> q.tracks[index + 1]]
    ELSE [q |-> q, ret |-> NULL]

\* remove(track): the first upcoming track with the same encoded string goes
QRemoveTrack(q, track) ==
    LET found == {i \in 1..Len(q.tracks) : q.tracks[i] = track}
    IN IF found = {} THEN [q |-> q, ret |-> NULL]
       ELSE QRemoveAt(q, (CHOOSE i \in found : \A j \in found : i <= j) - 1)

\* tracks with the entries at i and j (from 1) exchanged
SwapAt(ts, i, j) == [ts EXCEPT ![i] = ts[j], ![j] = ts[i]]

\* shuffle(): every order the loop can leave, for i from the last entry
\* down and any j up to i
RECURSIVE Shuffles(_, _)
Shuffles(ts, i) ==
    IF i <= 1 THEN {ts}
    ELSE UNION {Shuffles(SwapAt(ts, i, j), i - 1) : j \in 1..i}

----------------------------------------------------------------------------
(* The world a handler works on: the objects it reads and writes (p, nd,   *)
(* reg, promise), the REST calls it leaves in flight (fl), its outputs in  *)
(* order (log), and how its last call ended: susp = it is waiting for a    *)
(* REST response, thrown = it threw.                                       *)

Ret(W) == [W EXCEPT !.susp = FALSE, !.thrown = FALSE]
Out(W, e) == [W EXCEPT !.log = Append(@, e)]
\* a rejection handled by .catch(): it is reported, the caller goes on
Caught(W) == [W EXCEPT !.thrown = FALSE]
Throw(W, what) == [Out(W, E("throw", what, "")) EXCEPT !.susp = FALSE, !.thrown = TRUE]

NoThen == [then |-> "none", destroy |-> FALSE, wasCh |-> FALSE, oldState |-> NULL]

Task(kind, node, req, k) ==
    [kind |-> kind, node |-> node, req |-> req, track |-> NULL, pause |-> FALSE,
     replacing |-> FALSE, explicit |-> FALSE, wasPP |-> FALSE, num |-> 0,
     old |-> NULL, to |-> NULL, voice |-> FALSE, live |-> TRUE, owner |-> 0, k |-> k]

\* the request is sent: it is in flight and the handler waits for it
Issue(W, task) ==
    [W EXCEPT !.fl = Append(@, [task EXCEPT !.owner = W.p.id]), !.log = Append(@, task.req),
              !.susp = TRUE, !.thrown = FALSE]

\* the world seen from the Player object that createPlayer replaced
Swap(W) == [W EXCEPT !.p = W.mgr.old, !.mgr.old = W.p]

\* this.node?.connected && this.node?.sessionId
NodeUsable(W, n) == n # NULL /\ W.nd[n].connected /\ W.nd[n].sessionId # NULL

\* a Node as its constructor leaves it when it could not dial; ws is the
\* readyState of this.ws (NULL: no socket), stale the number of sockets the
\* node has let go of whose close event is still to come, late whether such
\* a socket was open and had not delivered its ready frame
DefaultRetryAmount == 5

NewNode(resumeKey) ==
    [connected |-> FALSE, sessionId |-> NULL, players |-> FALSE, ws |-> NULL,
     reconnectAttempt |-> 0, reconnectTimer |-> FALSE, delay |-> 0,
     hasStats |-> FALSE, penalty |-> 0, resumeKey |-> resumeKey,
     reconnect |-> TRUE, stale |-> 0, late |-> FALSE,
     retryAmount |-> DefaultRetryAmount]

\* a Node that has received the ready frame
ReadyNode(resumeKey) ==
    [NewNode(resumeKey) EXCEPT !.connected = TRUE, !.sessionId = "s1", !.ws = "open"]

\* getters of Player
IsConnected(p) ==
    p.connected /\ p.state \notin {"DISCONNECTED", "CONNECTION_FAILED", "DISCONNECTED_LAVALINK"}
IsPlaying(p) == p.state = "PLAYING" /\ p.playing /\ ~p.paused
IsPaused(p) == p.paused /\ p.state # "STOPPED"

NewPlayer(n) ==
    [state |-> "INSTANTIATED", connected |-> FALSE, voiceChannelId |-> NULL,
     voiceSessionId |-> NULL, voiceToken |-> NULL, voiceEndpoint |-> NULL,
     playing |-> FALSE, paused |-> FALSE, position |-> 0, volume |-> InitialVolume,
     loop |-> LOOP_NONE,
     moving |-> FALSE, resolver |-> FALSE, timer |-> FALSE,
     disconnecting |-> FALSE, node |-> n, q |-> NewQueue, id |-> 0]

\* no player yet: nothing is registered for the guild
NoPlayer == [NewPlayer(NULL) EXCEPT !.state = "DESTROYED"]

\* the Manager: userId is set or not, no explicit disconnect, its node map;
\* old is the Player object of the guild that createPlayer replaced, which
\* REST calls still in flight may belong to
NewManager(userId, order) ==
    [userId |-> userId, explicitDisconnect |-> NULL, order |-> order, old |-> NoPlayer,
     cur |-> 0, removing |-> NULL, wait |-> FALSE, listed |-> FALSE,
     toMove |-> 0]

\* _clearConnectionPromise(error); err = NULL is the call without an error
ClearConnectionPromise(W, err) ==
    LET W1 == [W EXCEPT !.p.timer = FALSE, !.p.resolver = FALSE]
    IN IF err # NULL /\ W.p.resolver
       THEN [Out(W1, E("reject", err, "")) EXCEPT !.promise = [st |-> "rejected", err |-> err]]
       ELSE IF err = NULL /\ W.p.resolver
       THEN [Out(W1, E("resolve", "", "")) EXCEPT !.promise = [st |-> "resolved", err |-> NULL]]
       ELSE W1

\* manager._sendGatewayPayload(guildId, {op: 4, d: {channel_id, ...}})
SendOp4(W, channel) == Out(W, E("op4", channel, ""))

\* Player.clearQueue() (the caller has checked the player is not destroyed)
ClearQueue(W) ==
    IF Len(W.p.q.tracks) > 0
    THEN Out([W EXCEPT !.p.q = QClear(@)], E("emit", "queueClear", ""))
    ELSE W

\* a variant that sends the PATCH whenever the node is usable
StopAlwaysPatch(W, clearQueue, k) ==
    IF W.p.state = "DESTROYED" THEN Ret(W)
    ELSE
    LET p == W.p
        W1 == [W EXCEPT !.p.playing = FALSE, !.p.paused = FALSE, !.p.position = 0,
                        !.p.q = QSetCurrent(@, NULL), !.p.state = "STOPPED"]
        W2 == IF clearQueue THEN ClearQueue(W1) ELSE W1
    IN IF NodeUsable(W2, p.node)
       THEN Issue(W2, Task("stop", p.node, E("patch", NULL, "false"), k))
       ELSE Ret(W2)

\* stop(clearQueue) up to its first await; k is what the caller does after it
Stop(W, clearQueue, k) ==
    IF W.p.state = "DESTROYED" THEN Ret(W)
    ELSE
    LET p == W.p
        wasPlayingOrPaused == IsPlaying(p) \/ IsPaused(p) \/ p.state \in {"PLAYING", "PAUSED"}
        W1 == [W EXCEPT !.p.playing = FALSE, !.p.paused = FALSE, !.p.position = 0,
                        !.p.q = QSetCurrent(@, NULL), !.p.state = "STOPPED"]
        W2 == IF clearQueue THEN ClearQueue(W1) ELSE W1
    IN IF NodeUsable(W2, p.node) /\ wasPlayingOrPaused
       THEN Issue(W2, [Task("stop", p.node, E("patch", NULL, "false"), k)
                          EXCEPT !.wasPP = wasPlayingOrPaused])
       ELSE Ret(IF wasPlayingOrPaused THEN Out(W2, E("emit", "playerStop", "")) ELSE W2)

\* stop() after its PATCH: the stop event (a failure is only reported)
StopDone(W, task, ok) ==
    LET W1 == IF ok THEN W ELSE Out(W, E("emit", "nodeError", "stop"))
    IN Ret(IF task.wasPP THEN Out(W1, E("emit", "playerStop", "")) ELSE W1)

\* play(track, {pause, noReplace}) up to its first await; track = NULL polls
Play(W, track, pause, noReplace) ==
    LET p == W.p IN
    IF p.state = "DESTROYED" THEN Throw(W, "Player is destroyed")
    ELSE IF ~IsConnected(p) /\ p.state # "WAITING_FOR_SERVER" THEN Throw(W, "Player not connected")
    ELSE IF ~NodeUsable(W, p.node) THEN Throw(W, "node not ready")
    ELSE
    LET explicit == track # NULL
        polled == QPoll(p.q)
        trackToPlay == IF explicit THEN track ELSE polled.ret
        W1 == IF explicit THEN W ELSE [W EXCEPT !.p.q = polled.q]
        isCurrentlyPlaying == IsPlaying(p) \/ (p.playing /\ p.paused)
    IN IF noReplace /\ isCurrentlyPlaying /\ explicit /\ trackToPlay = W1.p.q.current
       THEN Ret(W1)
       ELSE IF noReplace /\ isCurrentlyPlaying /\ ~explicit
       THEN Ret(W1)
       ELSE IF trackToPlay = NULL /\ W1.p.q.current = NULL
       THEN IF W1.p.state \in {"PLAYING", "PAUSED", "STOPPED"}
            THEN Stop(Out(W1, E("emit", "queueEnd", "")), FALSE, NoThen)
            ELSE Ret(W1)
       ELSE
       LET W2 == IF explicit THEN [W1 EXCEPT !.p.q = QSetCurrent(@, trackToPlay)] ELSE W1
       IN Issue(W2, [Task("play", p.node, E("patch", trackToPlay, B2S(isCurrentlyPlaying)), NoThen)
                        EXCEPT !.track = track, !.pause = pause,
                               !.replacing = isCurrentlyPlaying, !.explicit = explicit])

\* _handleTrackEnd(payload, previousTrack)
HandleTrackEnd(W, reason, previousTrack) ==
    LET p == W.p IN
    IF p.state \in {"DESTROYED", "DISCONNECTING"} THEN Ret(W)
    ELSE
    LET hist == p.q.previousTracks
        trackToReplay == IF previousTrack # NULL THEN previousTrack
                         ELSE IF hist = <<>> THEN NULL ELSE hist[Len(hist)]
        replayCase == p.loop = LOOP_TRACK /\ reason = "finished" /\ trackToReplay # NULL
    IN IF replayCase
       THEN IF IsConnected(p)
            THEN Caught(Play(W, trackToReplay, FALSE, FALSE)) \* .catch(): an error is only reported
            ELSE Ret(W)
       ELSE IF reason \in {"stopped", "replaced", "cleanup"}
       THEN Ret(IF p.q.current = NULL /\ QIsEmpty(p.q)
                THEN Out(W, E("emit", "queueEnd", "")) ELSE W)
       ELSE
       LET poll1 == QPoll(p.q)
           loopHit == p.loop = LOOP_QUEUE /\ poll1.ret # NULL
           \* with QUEUE loop an empty poll falls through to the second poll
           Wq == IF p.loop = LOOP_QUEUE THEN [W EXCEPT !.p.q = poll1.q] ELSE W
           poll2 == QPoll(Wq.p.q)
           nextTrack == IF loopHit THEN poll1.ret ELSE poll2.ret
           Wn == IF loopHit THEN Wq ELSE [Wq EXCEPT !.p.q = poll2.q]
       IN IF nextTrack # NULL
          THEN IF IsConnected(Wn.p)
               THEN Caught(Play(Wn, nextTrack, FALSE, FALSE))
               ELSE Ret(Wn)
          ELSE \* queue finished: this.current = null is an assignment to a
               \* property that has only a getter, a TypeError in class code
               Throw([Wn EXCEPT !.p.state = "STOPPED", !.p.playing = FALSE,
                                !.p.paused = FALSE],
                     "TypeError: set current")

\* the end of destroy(): its finally block, with the node it read at the start
DestroyFinal(W, currentNode) ==
    LET W1 == IF currentNode # NULL
              THEN [W EXCEPT !.nd[currentNode].players = FALSE] ELSE W
        W2 == [W1 EXCEPT !.p.node = NULL]
        \* manager._destroyPlayer(guildId)
        W3 == IF W2.reg THEN Out([W2 EXCEPT !.reg = FALSE], E("removed", "", "")) ELSE W2
    IN Ret(Out(W3, E("emit", "playerDestroy", "")))

\* destroy() up to its await
Destroy(W) ==
    LET p == W.p IN
    IF p.state = "DESTROYED" THEN Ret(W)
    ELSE
    LET wasTryingToConnect == p.state \in {"CONNECTING", "WAITING_FOR_SERVER"}
        wasInChannel == p.voiceChannelId # NULL
        W1 == Out([W EXCEPT !.p.state = "DESTROYED"], E("state", "DESTROYED", ""))
        W2 == ClearConnectionPromise(W1, "destroyed")
        W3 == [W2 EXCEPT !.p.playing = FALSE, !.p.paused = FALSE, !.p.q = QClear(@),
                         !.p.position = 0]
        W4 == IF wasInChannel \/ wasTryingToConnect THEN SendOp4(W3, NULL) ELSE W3
        W5 == [W4 EXCEPT !.p.connected = FALSE, !.p.voiceChannelId = NULL,
                         !.p.voiceSessionId = NULL, !.p.voiceToken = NULL,
                         !.p.voiceEndpoint = NULL]
    IN IF NodeUsable(W5, p.node)
       THEN Issue(W5, Task("destroy", p.node, E("delete", p.node, ""), NoThen))
       ELSE DestroyFinal(W5, p.node)

\* a variant whose cleanup runs only when the DELETE succeeded
DestroyDoneStrict(W, task, ok) ==
    IF ok THEN DestroyFinal(W, task.node)
    ELSE Ret(Out(W, E("emit", "nodeError", "destroy")))

\* destroy() after its DELETE: an error is reported and the cleanup runs
DestroyDone(W, task, ok) ==
    DestroyFinal(IF ok THEN W ELSE Out(W, E("emit", "nodeError", "destroy")), task.node)

\* disconnect(destroy): its end, from "this._disconnecting = false"
DisconnectEnd(W, destroy) ==
    LET W1 == [W EXCEPT !.p.disconnecting = FALSE]
    IN IF destroy THEN Caught(Destroy(W1))
       ELSE Ret(Out(W1, E("emit", "playerDisconnect", "")))

\* disconnect(destroy) after the stop of the playback, up to its next await
DisconnectRest(W, k) ==
    LET connecting == k.oldState \in {"CONNECTING", "WAITING_FOR_SERVER"}
        W1 == [W EXCEPT !.p.playing = FALSE, !.p.paused = FALSE, !.p.position = 0]
        W2 == IF connecting THEN ClearConnectionPromise(W1, "disconnected") ELSE W1
        W3 == IF ~k.destroy THEN [W2 EXCEPT !.p.state = "DISCONNECTED"] ELSE W2
        W4 == IF k.wasCh \/ connecting THEN SendOp4(W3, NULL) ELSE W3
        W5 == [W4 EXCEPT !.p.connected = FALSE, !.p.voiceChannelId = NULL,
                         !.p.voiceSessionId = NULL, !.p.voiceToken = NULL,
                         !.p.voiceEndpoint = NULL]
        n == W5.p.node
    IN IF ~k.destroy /\ NodeUsable(W5, n)
          /\ k.oldState \in {"PLAYING", "PAUSED", "STOPPED", "DISCONNECTED_LAVALINK"}
       THEN Issue(W5, Task("disconnect", n, E("patch", NULL, "false"), k))
       ELSE DisconnectEnd(W5, k.destroy)

\* disconnect(destroy) up to its first await
Disconnect(W, destroy) ==
    LET p == W.p IN
    IF p.disconnecting \/ p.state \in {"DESTROYED", "INSTANTIATED"} THEN Ret(W)
    ELSE
    LET k == [then |-> "disconnect", destroy |-> destroy,
              wasCh |-> p.voiceChannelId # NULL, oldState |-> p.state]
        W1 == [W EXCEPT !.p.disconnecting = TRUE]
        W2 == IF IsPlaying(p) \/ IsPaused(p) THEN Stop(W1, FALSE, k) ELSE Ret(W1)
    IN IF W2.susp THEN W2 ELSE DisconnectRest(W2, k)

\* connect(channelId); the manager's userId is set and the send callback returns
Connect(W, channelId) ==
    LET p == W.p IN
    IF p.state \notin {"INSTANTIATED", "DISCONNECTED", "CONNECTION_FAILED", "DISCONNECTED_LAVALINK"}
    THEN Throw(W, "Cannot connect while in state")
    ELSE IF p.resolver THEN Throw(W, "Connection attempt already in progress")
    ELSE
    LET W1 == [W EXCEPT !.p.state = "CONNECTING", !.p.voiceChannelId = channelId,
                        !.p.voiceSessionId = NULL, !.p.voiceToken = NULL,
                        !.p.voiceEndpoint = NULL, !.p.connected = FALSE,
                        !.p.resolver = TRUE, !.p.timer = TRUE,
                        !.promise = [st |-> "pending", err |-> NULL]]
    IN Ret(SendOp4(W1, channelId))

\* the callback of the VOICE_CONNECT_TIMEOUT_MS timer set by connect()
ConnectionTimeout(W) ==
    LET W0 == [W EXCEPT !.p.timer = FALSE] IN
    IF W0.p.state \in {"CONNECTING", "WAITING_FOR_SERVER"}
    THEN LET W1 == Out([W0 EXCEPT !.p.state = "CONNECTION_FAILED"],
                       E("state", "CONNECTION_FAILED", ""))
         IN Caught(Disconnect(ClearConnectionPromise(W1, "timeout"), TRUE))
    ELSE Ret(W0)

\* _sendVoiceUpdate() up to the PATCH; thrown = rejected by one of its checks
SendVoiceUpdate(W, kind) ==
    LET p == W.p IN
    IF p.state = "DESTROYED" \/ p.moving \/ p.node = NULL \/ ~NodeUsable(W, p.node)
       \/ p.voiceSessionId = NULL \/ p.voiceToken = NULL \/ p.voiceEndpoint = NULL
    THEN Throw(W, "Cannot send voice update")
    ELSE Issue(W, Task(kind, p.node, E("patchVoice", p.voiceSessionId, p.voiceEndpoint), NoThen))

\* the catch block of _handleVoiceServerUpdate
VoiceServerFailed(W, err) ==
    LET W1 == Out([W EXCEPT !.p.state = "CONNECTION_FAILED"],
                  E("state", "CONNECTION_FAILED", ""))
    IN Caught(Disconnect(ClearConnectionPromise(W1, err), TRUE))

\* the .catch of _sendVoiceUpdate's PATCH: report, disconnect(true), rethrow
VoicePatchRejected(W) ==
    Caught(Disconnect(Out(W, E("emit", "nodeError", "voice")), TRUE))

\* a variant that does not settle the connect promise on success
VoiceServerDoneUnsettled(W, task, ok) ==
    IF ~ok THEN VoiceServerFailed(VoicePatchRejected(W), "rest")
    ELSE Ret(Out([W EXCEPT !.p.connected = TRUE, !.p.state = "STOPPED"],
                 E("emit", "playerConnect", "")))

\* _handleVoiceServerUpdate after the PATCH it awaited
VoiceServerDone(W, task, ok) ==
    IF ~ok THEN VoiceServerFailed(VoicePatchRejected(W), "rest")
    ELSE IF W.p.node = NULL
    THEN \* this.node.identifier of the debug line throws inside the try
         VoiceServerFailed(W, "TypeError")
    ELSE LET W1 == [W EXCEPT !.p.connected = TRUE, !.p.state = "STOPPED"]
         IN Ret(Out(ClearConnectionPromise(W1, NULL), E("emit", "playerConnect", "")))

\* the voice update sent after a change of the voice session id, after its PATCH
VoiceSessionDone(W, task, ok) ==
    IF ok THEN Ret(W)
    ELSE Caught(Disconnect(Out(VoicePatchRejected(W), E("emit", "error", "voice")), TRUE))

\* data.endpoint.replace(/(:\d+)?$/, '').replace(/^wss?:\/\//, ''): an endpoint
\* is its scheme, host and port; "" stands for a part that is absent
NormalizeEndpoint(e) == e.host
EndpointPresent(e) == e.scheme # "" \/ e.host # "" \/ e.port # ""

\* Player._handleVoiceServerUpdate(data) up to its await
HandleVoiceServerUpdate(W, hasToken, endpoint) ==
    IF W.p.state # "WAITING_FOR_SERVER" THEN Ret(W)
    ELSE IF ~hasToken \/ ~EndpointPresent(endpoint)
    THEN LET W1 == ClearConnectionPromise(W, "incomplete")
         IN Caught(Disconnect(Out([W1 EXCEPT !.p.state = "CONNECTION_FAILED"],
                                  E("state", "CONNECTION_FAILED", "")), TRUE))
    ELSE
    LET host == NormalizeEndpoint(endpoint)
        W1 == [W EXCEPT !.p.voiceToken = "tok",
                        !.p.voiceEndpoint = IF host = "" THEN NULL ELSE host]
    IN IF host = ""
       THEN LET W2 == ClearConnectionPromise(W1, "endpoint")
            IN Caught(Disconnect(Out([W2 EXCEPT !.p.state = "CONNECTION_FAILED"],
                                     E("state", "CONNECTION_FAILED", "")), TRUE))
       ELSE LET W2 == SendVoiceUpdate(W1, "voiceServer")
            IN IF W2.thrown THEN VoiceServerFailed(W2, "precheck") ELSE W2

\* Player._handleVoiceStateUpdate(data) for our bot and this guild
HandleVoiceStateUpdate(W, channelId, sessionId) ==
    LET p == W.p
        W1 == [W EXCEPT !.p.voiceChannelId = channelId, !.p.voiceSessionId = sessionId]
    IN IF channelId = NULL
       THEN Throw(W1, "ReferenceError: oldState is not defined")
       ELSE IF p.state = "CONNECTING"
       THEN Ret(IF sessionId # NULL THEN [W1 EXCEPT !.p.state = "WAITING_FOR_SERVER"] ELSE W1)
       ELSE IF p.state = "DESTROYED" THEN Ret(W1)
       ELSE
       LET moved == p.voiceChannelId # NULL /\ channelId # p.voiceChannelId
           Wm(X) == IF moved THEN Out(X, E("emit", "playerVoiceChannelMove", channelId)) ELSE X
       IN IF sessionId # NULL /\ sessionId # p.voiceSessionId
             /\ p.voiceToken # NULL /\ p.voiceEndpoint # NULL
          THEN LET W2 == SendVoiceUpdate(W1, "voiceSession")
               IN IF W2.thrown
                  THEN Caught(Disconnect(Out(Wm(W2), E("emit", "error", "voice")), TRUE))
                  ELSE Wm(W2)
          ELSE Ret(Wm(W1))

\* Manager.handleVoiceStateUpdate(data) with data.user_id the bot's id
ManagerVoiceStateUpdate(W, channelId, sessionId) ==
    IF W.reg /\ W.p.state # "DESTROYED"
    THEN Caught(HandleVoiceStateUpdate(W, channelId, sessionId))
    ELSE IF W.reg /\ channelId = NULL
    THEN \* destroyPlayer(guildId) of a destroyed player: _destroyPlayer(guildId)
         Ret(Out(Out([W EXCEPT !.reg = FALSE], E("removed", "", "")),
                 E("emit", "playerDestroy", "")))
    ELSE Ret(W)

\* Manager.handleVoiceServerUpdate(data)
ManagerVoiceServerUpdate(W, hasToken, endpoint) ==
    IF W.reg /\ W.p.state # "DESTROYED"
    THEN Caught(HandleVoiceServerUpdate(W, hasToken, endpoint))
    ELSE Ret(W)

\* play() after its PATCH
PlayDone(W, task, ok) ==
    IF ok
    THEN Ret([W EXCEPT !.p.paused = task.pause, !.p.position = 0,
                       !.p.state = IF task.pause THEN "PAUSED"
                                   ELSE IF task.replacing THEN @ ELSE "PLAYING"])
    ELSE LET failedTrack == IF task.explicit THEN task.track ELSE W.p.q.current
         IN HandleTrackEnd(Out(W, E("emit", "trackException", "")), "loadFailed", failedTrack)

\* skip()
Skip(W) ==
    LET p == W.p IN
    IF p.state = "DESTROYED" THEN Throw(W, "Player is destroyed")
    ELSE IF ~IsConnected(p) THEN Throw(W, "Player is not connected")
    ELSE IF p.q.current = NULL /\ QIsEmpty(p.q) THEN Stop(W, FALSE, NoThen)
    ELSE IF "peek" \notin QueueMethods THEN Throw(W, "TypeError: peek")
    ELSE LET nextTrack == IF p.q.tracks = <<>> THEN NULL ELSE Head(p.q.tracks)
         IN IF nextTrack # NULL THEN Play(W, nextTrack, FALSE, FALSE)
            ELSE Stop(W, FALSE, NoThen)

\* add(trackOrTracks) with an array of one or more tracks: the array is
\* spread into Queue.add(track, position)
Add(W, tracks) ==
    IF W.p.state = "DESTROYED" THEN Throw(W, "Player is destroyed")
    ELSE
    LET isNum == FALSE \* a second track is not a number
        W1 == [W EXCEPT !.p.q = QAdd(@, tracks[1], isNum, 0)]
        W2 == Out(W1, E("emit", "trackAdd", ""))
    IN IF IsConnected(W2.p) /\ ~W2.p.playing /\ W2.p.q.current = NULL
       THEN Caught(Play(W2, NULL, FALSE, FALSE))
       ELSE Ret(W2)

\* setLoop(mode) with a valid mode
SetLoop(W, mode) ==
    IF W.p.state = "DESTROYED" THEN Throw(W, "Player is destroyed")
    ELSE Ret([W EXCEPT !.p.q.loop = mode, !.p.loop = mode])

\* _updateState(state): a playerUpdate frame
UpdateState(W, connected, position) ==
    LET p == W.p IN
    IF p.state = "DESTROYED" THEN Ret(W)
    ELSE
    LET W1 == [W EXCEPT !.p.position = position, !.p.connected = connected]
    IN IF p.connected /\ ~connected
       THEN Ret(Out([W1 EXCEPT !.p.state = "DISCONNECTED_LAVALINK"],
                    E("emit", "playerWebsocketClosed", "")))
       ELSE IF ~p.connected /\ connected
               /\ p.state \in {"DISCONNECTED_LAVALINK", "CONNECTING", "WAITING_FOR_SERVER"}
       THEN LET W2 == [W1 EXCEPT !.p.state = "STOPPED"]
            IN Ret(IF W2.p.resolver THEN ClearConnectionPromise(W2, NULL) ELSE W2)
       ELSE Ret(W1)

\* the playback state reset shared by the TrackEnd, TrackException and
\* TrackStuck cases of _handleEvent
ResetPlayback(W) ==
    [W EXCEPT !.p.playing = FALSE, !.p.paused = FALSE, !.p.position = 0,
              !.p.q = QSetCurrent(@, NULL), !.p.state = "STOPPED"]

\* _handleEvent(payload): an event frame; arg is the reason, severity or code
HandleEvent(W, type, arg) ==
    LET p == W.p
        previousTrack == p.q.current
    IN
    IF p.state = "DESTROYED" THEN Ret(W)
    ELSE IF type = "TrackStartEvent"
    THEN Ret(Out([W EXCEPT !.p.playing = TRUE, !.p.paused = FALSE,
                           !.p.state = "PLAYING", !.p.position = 0],
                 E("emit", "trackStart", previousTrack)))
    ELSE IF type = "TrackEndEvent"
    THEN IF previousTrack # NULL /\ arg # "replaced" /\ "addToHistory" \notin QueueMethods
         THEN Throw(W, "TypeError: addToHistory")
         ELSE LET W1 == IF arg # "replaced" THEN ResetPlayback(W)
                        ELSE [W EXCEPT !.p.q = QSetCurrent(@, NULL)]
                  W2 == Out(W1, E("emit", "trackEnd", arg))
              IN Caught(HandleTrackEnd(W2, arg, previousTrack))
    ELSE IF type \in {"TrackExceptionEvent", "TrackStuckEvent"}
    THEN IF previousTrack = NULL /\ "buildTrackFromEncoded" \notin QueueMethods
         THEN Throw(W, "TypeError: buildTrackFromEncoded")
         ELSE IF type = "TrackStuckEvent"
         THEN Caught(HandleTrackEnd(ResetPlayback(Out(W, E("emit", "trackStuck", ""))),
                                    "UNKNOWN", previousTrack))
         ELSE LET W1 == ResetPlayback(Out(W, E("emit", "trackException", arg)))
              IN IF arg = "fault"
                 THEN Caught(Disconnect(Out(W1, E("emit", "nodeError", "fault")), TRUE))
                 ELSE Caught(HandleTrackEnd(W1, "loadFailed", previousTrack))
    ELSE IF type = "WebSocketClosedEvent"
    THEN LET W1 == Out([W EXCEPT !.p.connected = FALSE, !.p.state = "DISCONNECTED_LAVALINK"],
                       E("emit", "playerWebsocketClosed", arg))
         IN IF arg \in {"4004", "4006", "4014"}
            THEN Caught(Disconnect(W1, TRUE))
            ELSE Ret(W1)
    ELSE Ret(W)

\* Node._handleMessage(payload) for a playerUpdate or event frame of the guild
HandleMessage(W, n, frame) ==
    IF ~W.nd[n].players THEN Ret(W)
    ELSE IF frame.t = "playerUpdate"
    THEN UpdateState(W, frame.a = "true", IF frame.b = "1" THEN 1 ELSE 0)
    ELSE HandleEvent(W, frame.t, frame.a)

\* Math.max(0, Math.min(Math.round(x), hi)) for a number x >= 0
Clamp(x, hi) == IF x > hi THEN hi ELSE x

\* the catch block of pause / seek / setVolume: report, rethrow to the caller
CommandFailed(W, what) ==
    Throw(Out(Out(W, E("emit", "nodeError", what)), E("emit", "error", what)), "rest error")

\* pause(pause) up to its await
Pause(W, pause) ==
    LET p == W.p IN
    IF p.state = "DESTROYED" THEN Throw(W, "Player is destroyed")
    ELSE IF ~IsConnected(p) THEN Throw(W, "Player is not connected")
    ELSE IF p.node = NULL \/ W.nd[p.node].sessionId = NULL THEN Throw(W, "no active session")
    ELSE IF pause = p.paused /\ p.state # "STOPPED" THEN Ret(W)
    ELSE IF p.q.current = NULL THEN Ret(W)
    ELSE Issue(W, [Task("pause", p.node, E("patchPaused", B2S(pause), ""), NoThen)
                      EXCEPT !.pause = pause])

\* a variant that sets the paused flag whether or not the PATCH succeeded
PauseDoneEager(W, task, ok) ==
    IF ~ok THEN CommandFailed([W EXCEPT !.p.paused = task.pause], "pause")
    ELSE Ret(Out([W EXCEPT !.p.paused = task.pause], E("emit", "playerPause", "")))

\* pause(pause) after its PATCH
PauseDone(W, task, ok) ==
    IF ~ok THEN CommandFailed(W, "pause")
    ELSE
    LET p == W.p
        pause == task.pause
        state == IF pause
                 THEN IF p.state \in {"PLAYING", "PAUSED"} THEN "PAUSED" ELSE p.state
                 ELSE IF p.q.current # NULL /\ p.state \in {"PAUSED", "STOPPED"} THEN "PLAYING"
                 ELSE IF p.q.current = NULL THEN "STOPPED"
                 ELSE p.state
        paused == IF ~pause /\ p.q.current = NULL THEN FALSE ELSE pause
        \* position = currentPosition, read after paused was set: the
        \* getter returns this.position when paused
        W1 == [W EXCEPT !.p.paused = paused, !.p.state = state]
    IN Ret(IF pause # p.paused \/ state \in {"PLAYING", "PAUSED"}
           THEN Out(W1, E("emit", IF pause THEN "playerPause" ELSE "playerResume", ""))
           ELSE W1)

\* seek(position) with a non-negative finite number; tracks are seekable
Seek(W, position) ==
    LET p == W.p IN
    IF p.state = "DESTROYED" THEN Throw(W, "Player is destroyed")
    ELSE IF ~IsConnected(p) THEN Throw(W, "Player is not connected")
    ELSE IF p.q.current = NULL THEN Throw(W, "Not playing anything")
    ELSE IF p.node = NULL \/ W.nd[p.node].sessionId = NULL THEN Throw(W, "no active session")
    ELSE Issue(W, [Task("seek", p.node, E("patchPosition", "", ""), NoThen)
                      EXCEPT !.num = Clamp(position, TrackLength)])

\* seek(position) after its PATCH
SeekDone(W, task, ok) ==
    IF ~ok THEN CommandFailed(W, "seek")
    ELSE Ret(Out([W EXCEPT !.p.position = task.num], E("emit", "playerSeek", "")))

\* setVolume(volume) with a finite number >= 0
SetVolume(W, volume) ==
    LET p == W.p
        targetVolume == Clamp(volume, MaxVolume)
    IN
    IF p.state = "DESTROYED" THEN Throw(W, "Player is destroyed")
    ELSE IF p.node = NULL \/ W.nd[p.node].sessionId = NULL THEN Throw(W, "no active session")
    ELSE IF targetVolume = p.volume THEN Ret(W)
    ELSE Issue(W, [Task("volume", p.node, E("patchVolume", "", ""), NoThen)
                      EXCEPT !.num = targetVolume])

\* setVolume(volume) after its PATCH
SetVolumeDone(W, task, ok) ==
    IF ~ok THEN CommandFailed(W, "volume")
    ELSE Ret(Out([W EXCEPT !.p.volume = task.num], E("emit", "playerVolumeUpdate", "")))

----------------------------------------------------------------------------
(* Manager and Node: node selection, moving a player, the node's socket *)

\* get Penalties(); Infinity is a value above every penalty
Infinity == MaxPenalty + 1
Penalties(node) == IF ~node.connected \/ ~node.hasStats THEN Infinity ELSE node.penalty

\* availableNodes.sort((a, b) => a.Penalties - b.Penalties): the sort is
\* stable, and Infinity - Infinity = NaN counts as "equal"
RECURSIVE InsertNode(_, _, _)
InsertNode(sorted, x, nd) ==
    IF sorted = <<>> THEN <<x>>
    ELSE IF Penalties(nd[x]) < Penalties(nd[Head(sorted)]) THEN <<x>> \o sorted
    ELSE <<Head(sorted)>> \o InsertNode(Tail(sorted), x, nd)

RECURSIVE SortNodes(_, _)
SortNodes(seq, nd) ==
    IF seq = <<>> THEN <<>>
    ELSE InsertNode(SortNodes(SubSeq(seq, 1, Len(seq) - 1), nd), seq[Len(seq)], nd)

\* Manager.getIdealNode() over the node map in insertion order
GetIdealNode(nd, order) ==
    LET Available(n) == nd[n].connected /\ nd[n].sessionId # NULL
        availableNodes == SelectSeq(order, Available)
    IN IF availableNodes = <<>> THEN NULL ELSE SortNodes(availableNodes, nd)[1]

\* a variant that always forgets the session
NodeDisconnectForgetful(W, n) ==
    [W EXCEPT !.nd[n].reconnectTimer = FALSE, !.nd[n].connected = FALSE,
              !.nd[n].ws = NULL, !.nd[n].sessionId = NULL,
              !.nd[n].stale = IF W.nd[n].ws # NULL THEN @ + 1 ELSE @,
              !.nd[n].late = IF W.nd[n].ws = "open" THEN ~W.nd[n].connected ELSE @,
              !.mgr.explicitDisconnect = IF W.nd[n].ws = "open" THEN n ELSE @]

\* Node.disconnect(): the socket it closes or terminates will still deliver
\* its close event
NodeDisconnect(W, n) ==
    LET node == W.nd[n]
        W1 == [W EXCEPT !.nd[n].reconnectTimer = FALSE, !.nd[n].connected = FALSE]
        W2 == IF node.ws = "open"
              THEN [W1 EXCEPT !.mgr.explicitDisconnect = n, !.nd[n].stale = @ + 1,
                              !.nd[n].late = ~node.connected]
              ELSE IF node.ws = "connecting"
              THEN [W1 EXCEPT !.nd[n].stale = @ + 1]
              ELSE W1
    IN [W2 EXCEPT !.nd[n].ws = NULL,
                  !.nd[n].sessionId = IF node.resumeKey THEN @ ELSE NULL]

\* Manager._destroyPlayer(guildId)
ManagerRemove(W) ==
    IF W.reg
    THEN Out(Out([W EXCEPT !.reg = FALSE], E("removed", "", "")), E("emit", "playerDestroy", ""))
    ELSE W

\* Manager.destroyPlayer(guildId), up to the await of player.destroy(), on
\* the player the map holds for the guild
DestroyRegistered(W) ==
    IF W.reg /\ W.p.state # "DESTROYED" THEN Destroy(W) ELSE Ret(ManagerRemove(W))

ManagerDestroyPlayer(W) ==
    IF W.p.id = W.mgr.cur THEN DestroyRegistered(W) ELSE Swap(DestroyRegistered(Swap(W)))

\* the end of Manager.removeNode(identifier), after its await: the node
\* leaves the map and is destroyed
RemoveNodeEnd(W) ==
    LET n == W.mgr.removing
        W1 == [W EXCEPT !.mgr.order = SelectSeq(@, LAMBDA m : m # n),
                        !.mgr.removing = NULL, !.mgr.wait = FALSE, !.mgr.listed = FALSE,
                        !.mgr.toMove = 0]
        W2 == NodeDisconnect(W1, n)
    IN Ret(Out([W2 EXCEPT !.nd[n].reconnect = FALSE, !.nd[n].players = FALSE],
               E("removedNode", n, "")))

\* what runs when a chain of awaits started by the Manager for a node's
\* players has ended: by says who started it
ManagerFlowEnd(W, by) ==
    IF by \in {"remove", "removeEnd"} /\ W.mgr.removing # NULL THEN RemoveNodeEnd(W) ELSE W

\* the Manager's await of destroyPlayer(guildId) in _handleNodeDisconnection
AwaitDestroyPlayer(W, by) ==
    LET W1 == ManagerDestroyPlayer(W)
    IN IF W1.susp
       THEN [W1 EXCEPT !.fl[Len(W1.fl)].k.then = IF by = "remove" THEN "removeEnd" ELSE @]
       ELSE ManagerFlowEnd(W1, by)

\* the end of a failed moveToNode, after its destroy(): finally, rethrow; the
\* manager's catch reports the failure and destroys the player
MoveFailedEnd(W, k) ==
    LET W1 == [W EXCEPT !.p.moving = FALSE]
    IN IF k.then \in {"manager", "remove"}
       THEN AwaitDestroyPlayer(Out(W1, E("emit", "nodeError", "Move Failure")), k.then)
       ELSE Throw(W1, "move failed")

\* the catch block of moveToNode from its await of this.destroy()
MoveDestroy(W, k) ==
    LET W1 == Destroy(W)
    IN IF W1.susp THEN [W1 EXCEPT !.fl[Len(W1.fl)].k = k] ELSE MoveFailedEnd(W1, k)

\* the catch block of moveToNode: back to the old node, then a DELETE on the
\* target if it is usable (its failure is ignored), then this.destroy()
MoveFailed(W, task) ==
    LET W1 == Out(Out([W EXCEPT !.p.node = task.old], E("emit", "error", "move")),
                  E("emit", "nodeError", "move"))
    IN IF NodeUsable(W1, task.to)
       THEN Issue(W1, [task EXCEPT !.kind = "moveCleanup", !.node = task.to, !.live = TRUE,
                                   !.req = E("delete", task.to, "")])
       ELSE MoveDestroy(W1, task.k)

\* moveToNode after the DELETE on the old node: rebind, then PATCH the target
MoveBind(W, task) ==
    LET W1 == IF task.old # NULL THEN [W EXCEPT !.nd[task.old].players = FALSE] ELSE W
        W1b == [W1 EXCEPT !.p.node = task.to, !.nd[task.to].players = TRUE]
        W2 == IF task.voice THEN W1b ELSE Out(W1b, E("emit", "warn", "Voice state incomplete"))
    IN IF W2.nd[task.to].sessionId = NULL
       THEN MoveFailed(W2, task) \* Node.updatePlayer rejects
       ELSE Issue(W2, [task EXCEPT !.kind = "move", !.node = task.to, !.live = TRUE,
                                   !.req = E("patchMove", task.track, B2S(task.voice))])

\* moveToNode(targetNode) up to its first await; by is who called it
MoveToNode(W, target, by) ==
    LET p == W.p IN
    IF p.moving THEN Throw(W, "Player move already in progress")
    ELSE IF p.state = "DESTROYED" THEN Throw(W, "Cannot move a destroyed player")
    ELSE IF target = p.node THEN Throw(W, "Target node is the same")
    ELSE IF ~NodeUsable(W, target) THEN Throw(W, "Target node is not ready")
    ELSE
    LET W1 == [W EXCEPT !.p.moving = TRUE]
        k == [NoThen EXCEPT !.then = by]
        snapshot == [Task("moveDelete", p.node, E("delete", p.node, ""), k)
                        EXCEPT !.track = p.q.current, !.pause = p.paused,
                               !.num = IF p.q.current = NULL THEN 0 ELSE p.position,
                               !.old = p.node, !.to = target,
                               !.voice = (p.voiceToken # NULL /\ p.voiceEndpoint # NULL
                                          /\ p.voiceSessionId # NULL)]
    IN IF NodeUsable(W1, p.node) THEN Issue(W1, snapshot) ELSE MoveBind(W1, snapshot)

\* a variant that leaves the move marked in progress
MoveDoneStillMoving(W, task, ok) ==
    IF ~ok THEN MoveFailed(W, task)
    ELSE Ret(Out(W, E("emit", "playerMove", task.to)))

\* moveToNode after the PATCH on the target
MoveDone(W, task, ok) ==
    IF ~ok THEN MoveFailed(W, task)
    ELSE
    LET W1 == IF task.track # NULL
              THEN [W EXCEPT !.p.playing = TRUE, !.p.paused = task.pause,
                             !.p.state = IF task.pause THEN "PAUSED" ELSE "PLAYING"]
              ELSE [W EXCEPT !.p.playing = FALSE, !.p.paused = FALSE, !.p.state = "STOPPED"]
    IN ManagerFlowEnd(Ret(Out([W1 EXCEPT !.p.moving = FALSE], E("emit", "playerMove", task.to))),
                      task.k.then)

\* Manager._handleNodeDisconnection(node, true): the player of the guild is
\* moved to the ideal node, or destroyed when there is none
HandleNodeDisconnection(W, n) ==
    IF ~(W.reg /\ W.p.node = n /\ W.p.state # "DESTROYED") THEN Ret(W)
    ELSE
    LET targetNode == GetIdealNode(W.nd, W.mgr.order)
    IN IF targetNode # NULL
       THEN LET W1 == MoveToNode(W, targetNode, "manager")
            IN IF W1.thrown
               THEN ManagerDestroyPlayer(Out(Caught(W1), E("emit", "nodeError", "Move Failure")))
               ELSE W1
       ELSE ManagerDestroyPlayer(W)

\* _handleNodeDisconnection(node, false) from its loops: the player bound to
\* the node is moved to targetNode, or destroyed
HandleNodePlayers(W, targetNode) ==
    IF targetNode # NULL
    THEN IF W.p.state = "DESTROYED" THEN ManagerFlowEnd(W, "remove")
         ELSE LET W1 == MoveToNode(W, targetNode, "remove")
              IN IF W1.thrown
                 THEN AwaitDestroyPlayer(Out(Caught(W1), E("emit", "nodeError", "Move Failure")),
                                         "remove")
                 ELSE W1
    ELSE AwaitDestroyPlayer(W, "remove")

\* _handleNodeDisconnection(node, false) as removeNode awaits it: with no
\* target at once it waits initialDelay + 500 ms and looks again
HandleNodeRemoval(W) ==
    LET n == W.mgr.removing IN
    IF ~(W.reg /\ W.p.node = n /\ W.p.state # "DESTROYED") THEN RemoveNodeEnd(W)
    ELSE LET targetNode == GetIdealNode(W.nd, W.mgr.order)
             W1 == [W EXCEPT !.mgr.listed = TRUE, !.mgr.toMove = W.p.id]
         IN IF targetNode = NULL
            THEN [W1 EXCEPT !.mgr.wait = TRUE, !.susp = TRUE]
            ELSE HandleNodePlayers(W1, targetNode)

\* Manager.removeNode(identifier) up to its await
RemoveNode(W, n) ==
    IF \A i \in 1..Len(W.mgr.order) : W.mgr.order[i] # n THEN Ret(W)
    ELSE HandleNodeRemoval([NodeDisconnect(W, n) EXCEPT !.mgr.removing = n])

\* Node._connect()
NodeConnect(W, n) ==
    LET node == W.nd[n] IN
    IF node.ws \in {"open", "connecting"} THEN W
    ELSE IF ~W.mgr.userId THEN W
    ELSE LET header == IF node.sessionId # NULL THEN "Session-Id"
                       ELSE IF node.resumeKey THEN "Resume-Key" ELSE "none"
         IN Out([W EXCEPT !.nd[n].reconnectTimer = FALSE, !.nd[n].ws = "connecting"],
                E("dial", n, header))

\* a variant that never gives up
AttemptReconnectForever(W, n) ==
    LET node == W.nd[n] IN
    IF node.reconnectTimer THEN W
    ELSE IF ~W.mgr.userId THEN W
    ELSE LET exp == InitialDelay * 2 ^ node.reconnectAttempt
         IN [W EXCEPT !.nd[n].delay = IF exp < MaxDelay THEN exp ELSE MaxDelay,
                      !.nd[n].reconnectAttempt = @ + 1,
                      !.nd[n].reconnectTimer = TRUE]

\* Node._attemptReconnect(); options.reconnect is set (node.reconnect)
AttemptReconnect(W, n) ==
    LET node == W.nd[n] IN
    IF node.reconnectTimer THEN W
    ELSE IF ~W.mgr.userId THEN W
    ELSE IF node.reconnect /\ node.reconnectAttempt >= MaxTries
    THEN HandleNodeDisconnection(Out(W, E("emit", "nodeError", "Max reconnect attempts")), n)
    ELSE LET exp == InitialDelay * 2 ^ node.reconnectAttempt
         IN [W EXCEPT !.nd[n].delay = IF exp < MaxDelay THEN exp ELSE MaxDelay,
                      !.nd[n].reconnectAttempt = @ + 1,
                      !.nd[n].reconnectTimer = TRUE]

\* Node._handleOpen()
NodeHandleOpen(W, n) ==
    Out([W EXCEPT !.nd[n].ws = "open", !.nd[n].reconnectAttempt = 0,
                  !.nd[n].reconnectTimer = FALSE],
        E("emit", "nodeConnect", n))

\* Node._handleMessage, op ready; a new session with a resume key is
\* configured for resuming by a PATCH of the session that is not awaited
NodeHandleReady(W, n, resumed) ==
    LET W1 == [W EXCEPT !.nd[n].sessionId = "s1", !.nd[n].connected = TRUE,
                        !.nd[n].reconnectAttempt = 0, !.nd[n].reconnectTimer = FALSE]
        W2 == IF ~resumed /\ W.nd[n].resumeKey THEN Out(W1, E("patchSession", n, "")) ELSE W1
    IN Out(W2, E("emit", "nodeReady", n))

\* Node._handleMessage, op stats
NodeHandleStats(W, n, penalty) ==
    Out([W EXCEPT !.nd[n].hasStats = TRUE, !.nd[n].penalty = penalty], E("emit", "nodeStats", n))

\* Node._handleClose(code)
NodeHandleClose(W, n, code) ==
    LET W1 == [W EXCEPT !.nd[n].ws = NULL, !.nd[n].connected = FALSE,
                        !.nd[n].sessionId = IF W.nd[n].resumeKey THEN @ ELSE NULL]
        W2 == Out(W1, E("emit", "nodeDisconnect", code))
    IN IF code \in PermanentCodes
       THEN Out(W2, E("emit", "nodeError", "Permanent error on close"))
       ELSE IF W2.nd[n].reconnect /\ W2.mgr.explicitDisconnect # n /\ ~W2.nd[n].reconnectTimer
       THEN AttemptReconnect(W2, n)
       ELSE IF W2.mgr.explicitDisconnect = n
       THEN [W2 EXCEPT !.mgr.explicitDisconnect = NULL]
       ELSE W2

\* Manager.createPlayer(guildId)
CreatePlayer(W) ==
    IF ~W.mgr.userId THEN Throw(W, "userId is not set")
    ELSE IF W.reg /\ W.p.state # "DESTROYED" THEN Ret(W)
    ELSE LET idealNode == GetIdealNode(W.nd, W.mgr.order)
         IN IF idealNode = NULL THEN Throw(W, "No available nodes")
            ELSE Ret(Out([W EXCEPT !.p = [NewPlayer(idealNode) EXCEPT !.id = 1 - W.p.id],
                                   !.mgr.old = W.p, !.mgr.cur = 1 - W.p.id, !.reg = TRUE,
                                   !.nd[idealNode].players = TRUE,
                                   !.promise = [st |-> "none", err |-> NULL]],
                         E("emit", "playerCreate", idealNode)))

\* the continuation of an awaited REST call, then what its caller does next
Resume(W, task, ok) ==
    IF task.kind = "play" THEN PlayDone(W, task, ok)
    ELSE IF task.kind = "stop"
    THEN LET W1 == StopDone(W, task, ok)
         IN IF task.k.then = "disconnect" THEN DisconnectRest(W1, task.k) ELSE W1
    ELSE IF task.kind = "disconnect"
    THEN DisconnectEnd(IF ok THEN W ELSE Out(W, E("emit", "nodeError", "disconnect")),
                       task.k.destroy)
    ELSE IF task.kind = "destroy"
    THEN LET W1 == DestroyDone(W, task, ok)
         IN IF task.k.then \in {"manager", "caller", "remove"} THEN MoveFailedEnd(W1, task.k)
            ELSE ManagerFlowEnd(W1, task.k.then)
    ELSE IF task.kind = "moveDelete"
    THEN MoveBind(IF ok THEN W ELSE Out(W, E("emit", "warn", "moveDelete")), task)
    ELSE IF task.kind = "move" THEN MoveDone(W, task, ok)
    ELSE IF task.kind = "moveCleanup" THEN MoveDestroy(W, task.k)
    ELSE IF task.kind = "voiceServer" THEN VoiceServerDone(W, task, ok)
    ELSE IF task.kind = "pause" THEN PauseDone(W, task, ok)
    ELSE IF task.kind = "seek" THEN SeekDone(W, task, ok)
    ELSE IF task.kind = "volume" THEN SetVolumeDone(W, task, ok)
    ELSE VoiceSessionDone(W, task, ok)

\* the continuation runs on the Player object that made the call: the
\* guild's player, or the one createPlayer replaced
ResumeFor(W, task, ok) ==
    IF task.owner = W.p.id THEN Resume(W, task, ok)
    ELSE Swap(Resume(Swap(W), task, ok))

----------------------------------------------------------------------------
(* The audio server, the socket of the node and the platform's gateway *)

Severities == {"common", "fault"}
CloseCodes == {"4014", "1000"}
Endpoints == {[scheme |-> "", host |-> "eu.example", port |-> ":443"],
              [scheme |-> "wss://", host |-> "", port |-> ":443"],
              [scheme |-> "", host |-> "", port |-> ""]}

\* the frames the server sends when it has carried out a request
ServerFrames(req) ==
    IF req.t = "patch" /\ req.a # NULL
    THEN IF srv # NULL /\ req.b = "true" THEN <<>>
         ELSE (IF srv # NULL THEN <<E("TrackEndEvent", "replaced", "")>> ELSE <<>>)
              \o <<E("TrackStartEvent", "", "")>>
    ELSE IF req.t = "patch" /\ srv # NULL THEN <<E("TrackEndEvent", "stopped", "")>>
    ELSE <<>>

\* the track the server plays when it has carried out a request
ServerTrack(req) ==
    IF req.t = "patch" /\ req.a # NULL
    THEN IF srv # NULL /\ req.b = "true" THEN srv ELSE req.a
    ELSE IF req.t \in {"patch", "delete"} THEN NULL
    ELSE srv

\* the gateway after the op 4 payloads of a step: a change of the bot's
\* channel is answered by a voice state update, a join also by a voice
\* server update
RECURSIVE Gateway(_, _)
Gateway(g, out) ==
    IF out = <<>> THEN g
    ELSE LET e == Head(out)
             g1 == IF e.t = "op4" /\ e.a # g.ch
                   THEN [ch |-> e.a,
                         q |-> g.q \o <<E("vsu", e.a, "v1")>>
                                   \o (IF e.a # NULL THEN <<E("vsrv", "", "")>> ELSE <<>>)]
                   ELSE g
         IN Gateway(g1, Tail(out))

----------------------------------------------------------------------------
(* Steps *)

Start(label) ==
    [p |-> pl, nd |-> nodes, reg |-> reg, promise |-> promise, fl |-> inflight,
     mgr |-> mgr, log |-> <<label>>, susp |-> FALSE, thrown |-> FALSE]

Commit(W) ==
    /\ Len(W.fl) <= MaxInflight
    /\ Len(W.p.q.tracks) <= MaxQueue
    /\ IF Len(W.p.q.previousTracks) <= MaxHistory THEN TRUE
       ELSE Len(W.p.q.previousTracks) <= Len(pl.q.previousTracks)
    /\ pl' = W.p
    /\ nodes' = W.nd
    /\ reg' = W.reg
    /\ promise' = W.promise
    /\ inflight' = W.fl
    /\ log' = W.log
    /\ mgr' = W.mgr
    /\ Len(Gateway(gw, W.log).q) <= MaxGw

\* a caller command / an event from outside, while the model's budget lasts
Call == used.calls < MaxCalls /\ used' = [used EXCEPT !.calls = @ + 1]
Env == used.env < MaxEnv /\ used' = [used EXCEPT !.env = @ + 1]

Init ==
    /\ used = [calls |-> 0, env |-> 0]
    /\ pl = NewPlayer("n1")
    /\ nodes = [n \in Nodes |-> [ReadyNode(FALSE) EXCEPT !.players = TRUE]]
    /\ mgr = NewManager(TRUE, <<"n1">>)
    /\ reg = TRUE
    /\ promise = [st |-> "none", err |-> NULL]
    /\ inflight = <<>>
    /\ srv = NULL
    /\ evq = <<>>
    /\ gw = [ch |-> NULL, q |-> <<>>]
    /\ log = <<E("step", "createPlayer", "")>>

\* a command of the caller: W is the world after it
Command(W) ==
    /\ Commit(W)
    /\ gw' = Gateway(gw, W.log)
    /\ Call
    /\ UNCHANGED <<srv, evq>>

\* the channel the caller asks for (the two channels are alike; the bot can
\* be moved to the other one)
ConnectInputs == {"c1"}

CallConnect ==
    \E c \in ConnectInputs : Command(Connect(Start(E("step", "connect", c)), c))

PlayInputs ==
    {<<t, FALSE, FALSE>> : t \in Tracks \cup {NULL}}
        \cup {<<"A", TRUE, FALSE>>, <<"A", FALSE, TRUE>>}

CallPlay ==
    \E in \in PlayInputs :
        Command(Play(Start(E("step", "play", in[1])), in[1], in[2], in[3]))

CallStop ==
    \E clearQueue \in BOOLEAN :
        Command(Stop(Start(E("step", "stop", B2S(clearQueue))), clearQueue, NoThen))

CallSkip == Command(Skip(Start(E("step", "skip", ""))))

AddInputs == {<<"A">>, <<"B", "A">>}

CallAdd ==
    \E ts \in AddInputs :
        Command(Add(Start(E("step", "add", ts[1])), ts))

CallSetLoop ==
    \E mode \in {LOOP_NONE, LOOP_TRACK, LOOP_QUEUE} :
        Command(SetLoop(Start(E("step", "setLoop", "")), mode))

CallDisconnect ==
    \E destroy \in BOOLEAN :
        Command(Disconnect(Start(E("step", "disconnect", B2S(destroy))), destroy))

CallDestroy == Command(Destroy(Start(E("step", "destroy", ""))))

TimerFires ==
    /\ pl.timer
    /\ Commit(ConnectionTimeout(Start(E("step", "timeout", ""))))
    /\ gw' = Gateway(gw, log')
    /\ UNCHANGED <<srv, evq, used>>

\* the platform delivers its next voice callback
VoiceCallback ==
    /\ gw.q # <<>>
    /\ LET e == Head(gw.q)
           g == [gw EXCEPT !.q = Tail(@)]
       IN \/ /\ e.t = "vsu"
             /\ Commit(ManagerVoiceStateUpdate(Start(E("step", "voiceStateUpdate", e.a)),
                                               e.a, e.b))
             /\ gw' = Gateway(g, log')
          \/ /\ e.t = "vsrv"
             /\ \E hasToken \in BOOLEAN, ep \in Endpoints :
                   /\ ~hasToken => ep.host # ""
                   /\ Commit(ManagerVoiceServerUpdate(
                                 Start(E("step", "voiceServerUpdate", ep.host)), hasToken, ep))
             /\ gw' = Gateway(g, log')
    /\ UNCHANGED <<srv, evq, used>>

\* somebody moves the bot to another channel or out of voice, or the
\* platform gives the bot a new voice session
VoiceChanged ==
    /\ gw.ch # NULL
    /\ Len(gw.q) < MaxGw
    /\ \E c \in Channels \cup {NULL}, s \in VSessions :
          /\ (c = gw.ch) # (s = "v1")
          /\ gw' = [ch |-> c, q |-> Append(gw.q, E("vsu", c, s))]
    /\ log' = <<E("step", "platform", "")>>
    /\ Env
    /\ UNCHANGED <<pl, nodes, reg, promise, inflight, srv, evq, mgr>>

\* the response of a REST call arrives; the server carried the request out
\* (ok) or the call failed
RestDone ==
    \E i \in 1..Len(inflight), ok \in BOOLEAN :
        LET task == inflight[i]
            rest == SubSeq(inflight, 1, i - 1) \o SubSeq(inflight, i + 1, Len(inflight))
            W == [Start(E("rest", task.kind, B2S(ok))) EXCEPT !.fl = rest]
        IN /\ ok => task.live /\ nodes[task.node].connected
           /\ Commit(ResumeFor(W, task, ok))
           /\ gw' = Gateway(gw, log')
           /\ srv' = IF ok THEN ServerTrack(task.req) ELSE srv
           /\ evq' = IF ok THEN evq \o ServerFrames(task.req) ELSE evq
           /\ Len(evq') <= MaxEvq
           /\ UNCHANGED used

\* the node's socket delivers the next frame
Frame ==
    /\ evq # <<>>
    /\ Commit(HandleMessage(Start(E("step", Head(evq).t, Head(evq).a)), "n1", Head(evq)))
    /\ gw' = Gateway(gw, log')
    /\ evq' = Tail(evq)
    /\ UNCHANGED <<srv, used>>

\* the server sends a frame of its own accord
Send(frame) ==
    /\ nodes["n1"].connected
    /\ evq = <<>>
    /\ evq' = <<frame>>
    /\ log' = <<E("step", "server", frame.t)>>
    /\ Env
    /\ UNCHANGED <<pl, nodes, reg, promise, inflight, gw, mgr>>

ServerTrackFinished ==
    /\ srv # NULL
    /\ srv' = NULL
    /\ Send(E("TrackEndEvent", "finished", ""))

ServerTrackException ==
    \E sev \in Severities :
        /\ srv # NULL
        /\ srv' = NULL
        /\ Send(E("TrackExceptionEvent", sev, ""))

ServerTrackStuck ==
    /\ srv # NULL
    /\ UNCHANGED srv
    /\ Send(E("TrackStuckEvent", "", ""))

ServerVoiceClosed ==
    \E code \in CloseCodes :
        /\ pl.connected
        /\ UNCHANGED srv
        /\ Send(E("WebSocketClosedEvent", code, ""))

\* the periodic playerUpdate frame: the position moves while a track plays
ServerPlayerUpdate ==
    \E c \in BOOLEAN :
        /\ nodes["n1"].players
        /\ pl.voiceEndpoint # NULL
        /\ UNCHANGED srv
        /\ Send(E("playerUpdate", B2S(c), IF srv # NULL THEN "1" ELSE "0"))

\* Node._handleClose: the socket of the node closes; the session is not resumed
NodeClose ==
    \E n \in Nodes :
        /\ nodes[n].connected
        /\ nodes' = [nodes EXCEPT ![n].connected = FALSE, ![n].sessionId = NULL,
                                  ![n].ws = NULL]
        /\ inflight' = [i \in 1..Len(inflight) |-> [inflight[i] EXCEPT !.live = FALSE]]
        /\ srv' = NULL
        /\ evq' = <<>>
        /\ log' = <<E("step", "nodeClose", n)>>
        /\ Env
        /\ UNCHANGED <<pl, reg, promise, gw, mgr>>

\* Node._handleMessage, op ready, after a reconnect
NodeReady ==
    \E n \in Nodes :
        /\ ~nodes[n].connected
        /\ nodes' = [nodes EXCEPT ![n].connected = TRUE, ![n].sessionId = "s1",
                                  ![n].ws = "open"]
        /\ log' = <<E("step", "nodeReady", n)>>
        /\ UNCHANGED <<pl, reg, promise, inflight, srv, evq, gw, mgr, used>>

Next ==
    \/ CallConnect \/ CallPlay \/ CallStop \/ CallSkip \/ CallAdd \/ CallSetLoop
    \/ CallDisconnect \/ CallDestroy \/ TimerFires
    \/ VoiceCallback \/ VoiceChanged
    \/ RestDone \/ Frame
    \/ ServerTrackFinished \/ ServerTrackException \/ ServerTrackStuck
    \/ ServerVoiceClosed \/ ServerPlayerUpdate
    \/ NodeClose \/ NodeReady

Spec == Init /\ [][Next]_vars

----------------------------------------------------------------------------
(* The commands pause / seek / setVolume, on a player that is connected     *)
(* and has played: a second specification over the same objects.            *)

PauseInputs == BOOLEAN
SeekInputs == {0, 2}
VolumeInputs == {50, 100, 1001}

CallPause ==
    \E b \in PauseInputs : Command(Pause(Start(E("step", "pause", B2S(b))), b))

CallSeek ==
    \E x \in SeekInputs : Command(Seek(Start(E("step", "seek", "")), x))

CallSetVolume ==
    \E v \in VolumeInputs : Command(SetVolume(Start(E("step", "setVolume", "")), v))

\* a player after connect() has resolved, in channel c1
ConnectedPlayer ==
    [NewPlayer("n1") EXCEPT !.state = "STOPPED", !.connected = TRUE,
                            !.voiceChannelId = "c1", !.voiceSessionId = "v1",
                            !.voiceToken = "tok", !.voiceEndpoint = "eu.example"]

\* ... stopped; playing track A after its TrackStartEvent; paused by pause(true)
CmdPlayers ==
    {ConnectedPlayer,
     [ConnectedPlayer EXCEPT !.state = "PLAYING", !.playing = TRUE, !.q.current = "A"],
     [ConnectedPlayer EXCEPT !.state = "PAUSED", !.playing = TRUE, !.paused = TRUE,
                             !.q.current = "A"]}

\* ... playing track A with B upcoming and B played before
QueuedPlayer ==
    [ConnectedPlayer EXCEPT !.state = "PLAYING", !.playing = TRUE, !.q.current = "A",
                            !.q.tracks = <<"B">>, !.q.previousTracks = <<"B">>]

\* player.clearQueue()
PlayerClearQueue(W) ==
    IF W.p.state = "DESTROYED" THEN Throw(W, "Player is destroyed")
    ELSE Ret(ClearQueue(W))

CallClearQueue ==
    Command(PlayerClearQueue(Start(E("step", "clearQueue", ""))))

InitCmd ==
    /\ used = [calls |-> 0, env |-> 0]
    /\ pl \in CmdPlayers \cup {QueuedPlayer}
    /\ nodes = [n \in Nodes |-> [ReadyNode(FALSE) EXCEPT !.players = TRUE]]
    /\ mgr = NewManager(TRUE, <<"n1">>)
    /\ reg = TRUE
    /\ promise = [st |-> "resolved", err |-> NULL]
    /\ inflight = <<>>
    /\ srv = pl.q.current
    /\ evq = <<>>
    /\ gw = [ch |-> "c1", q |-> <<>>]
    /\ log = <<E("step", "createPlayer", "")>>

NextCmd ==
    \/ CallPause \/ CallSeek \/ CallSetVolume \/ CallStop \/ CallClearQueue
    \/ RestDone \/ Frame
    \/ NodeClose \/ NodeReady

SpecCmd == InitCmd /\ [][NextCmd]_vars

----------------------------------------------------------------------------
(* The nodes' sockets: a Manager with two nodes, from its construction.     *)
(* The reconnect timer, a dial's outcome, the ready frame and the close     *)
(* event of a socket the node let go of are scheduled by the runtime and    *)
(* the network: each of them happens once it is due.                        *)

NodeIds == {"n1", "n2"}
NodeCloseCodes == {"1006", "4004"}

NodeStep(W) ==
    /\ Commit(W)
    /\ gw' = Gateway(gw, W.log)
    /\ UNCHANGED <<srv, evq>>

\* new Manager(options), then addNode twice: each Node's constructor calls
\* _connect(), which dials only when the user id is there
InitNode ==
    /\ used = [calls |-> 0, env |-> 0]
    /\ pl = NoPlayer
    /\ reg = FALSE
    /\ \E userId \in BOOLEAN, key \in BOOLEAN :
          LET W0 == [p |-> NoPlayer,
                     nd |-> [n \in NodeIds |-> NewNode(n = "n1" /\ key)],
                     reg |-> FALSE, promise |-> [st |-> "none", err |-> NULL],
                     fl |-> <<>>, mgr |-> NewManager(userId, <<"n1", "n2">>),
                     log |-> <<E("step", "addNode", "")>>, susp |-> FALSE, thrown |-> FALSE]
              W == NodeConnect(NodeConnect(W0, "n1"), "n2")
          IN nodes = W.nd /\ mgr = W.mgr /\ log = W.log
    /\ promise = [st |-> "none", err |-> NULL]
    /\ inflight = <<>>
    /\ srv = NULL
    /\ evq = <<>>
    /\ gw = [ch |-> NULL, q |-> <<>>]

\* manager.userId = client.user.id: a plain assignment
CallSetUserId ==
    /\ ~mgr.userId
    /\ mgr' = [mgr EXCEPT !.userId = TRUE]
    /\ log' = <<E("step", "setUserId", "")>>
    /\ UNCHANGED <<pl, nodes, reg, promise, inflight, srv, evq, gw, used>>

CallCreatePlayer ==
    /\ inflight = <<>>
    /\ Call
    /\ NodeStep(Caught(CreatePlayer(Start(E("step", "createPlayer", "")))))

CallNodeDisconnect ==
    \E n \in NodeIds :
        /\ nodes[n].stale < MaxStale
        /\ Call
        /\ NodeStep(NodeDisconnect(Start(E("step", "nodeDisconnect", n)), n))

\* the socket's open event
SockOpen ==
    \E n \in NodeIds :
        /\ nodes[n].ws = "connecting"
        /\ NodeStep(NodeHandleOpen(Start(E("step", "open", n)), n))
        /\ UNCHANGED used

\* the ready frame of the server: resumed only for a session asked for
SockReady ==
    \E n \in NodeIds, resumed \in BOOLEAN :
        /\ nodes[n].ws = "open"
        /\ ~nodes[n].connected
        /\ resumed => nodes[n].sessionId # NULL
        /\ NodeStep(NodeHandleReady(Start(E("step", "ready", n)), n, resumed))
        /\ UNCHANGED used

\* a stats frame
SockStats ==
    \E n \in NodeIds, penalty \in 0..MaxPenalty :
        /\ nodes[n].ws = "open"
        /\ nodes[n].connected
        /\ ~nodes[n].hasStats \/ nodes[n].penalty # penalty
        /\ NodeStep(NodeHandleStats(Start(E("step", "stats", n)), n, penalty))
        /\ UNCHANGED used

\* the close event of the node's socket: a dial that fails, or a
\* connection that is lost or that the server closes
SockClose ==
    \E n \in NodeIds, code \in NodeCloseCodes :
        /\ nodes[n].ws \in {"connecting", "open"}
        /\ IF nodes[n].ws = "open" THEN Env ELSE UNCHANGED used
        /\ LET label == E(IF nodes[n].connected THEN "closeReady" ELSE "close", n, code)
               W == Start(label)
               W1 == [W EXCEPT !.fl = [i \in 1..Len(W.fl) |->
                                          IF W.fl[i].node = n
                                          THEN [W.fl[i] EXCEPT !.live = FALSE] ELSE W.fl[i]]]
           IN NodeStep(NodeHandleClose(W1, n, code))

\* the close event of a socket that disconnect() closed or terminated
StaleClose ==
    \E n \in NodeIds :
        /\ nodes[n].stale > 0
        /\ LET W == Start(E("step", "staleClose", n))
           IN NodeStep(NodeHandleClose([W EXCEPT !.nd[n].stale = @ - 1,
                                                 !.nd[n].late = FALSE], n, "1000"))
        /\ UNCHANGED used

\* the ready frame of a socket that disconnect() closed before the frame
\* arrived: close() leaves the socket's listeners in place, and the socket
\* delivers what it receives until its close event
StaleReady ==
    \E n \in NodeIds :
        /\ nodes[n].late
        /\ LET W == Start(E("step", "lateReady", n))
           IN NodeStep(NodeHandleReady([W EXCEPT !.nd[n].late = FALSE], n, FALSE))
        /\ UNCHANGED used

\* the reconnect timer of _attemptReconnect fires
ReconnectTimerFires ==
    \E n \in NodeIds :
        /\ nodes[n].reconnectTimer
        /\ LET W == Start(E("step", "reconnectTimer", n))
           IN NodeStep(NodeConnect([W EXCEPT !.nd[n].reconnectTimer = FALSE], n))
        /\ UNCHANGED used

NextNode ==
    \/ CallSetUserId \/ CallCreatePlayer \/ CallNodeDisconnect
    \/ SockOpen \/ SockReady \/ SockStats \/ SockClose \/ StaleClose \/ StaleReady
    \/ ReconnectTimerFires \/ RestDone

SpecNode ==
    /\ InitNode
    /\ [][NextNode]_vars
    /\ WF_vars(ReconnectTimerFires)
    /\ WF_vars(SockOpen \/ SockClose)
    /\ WF_vars(SockReady)
    /\ WF_vars(StaleClose)
    /\ WF_vars(RestDone)

----------------------------------------------------------------------------
(* Manager.getIdealNode() as a function of the node map: three nodes, in    *)
(* every insertion order, each in any condition a Node can be in.           *)

IdealNodeIds == {"n1", "n2", "n3"}

\* the conditions of a Node: connected only with a session; stats, once
\* received, are kept over a close; a session is kept over a close by a
\* resumeKey
NodeConditions ==
    {node \in [connected : BOOLEAN, sessionId : {NULL, "s1"}, hasStats : BOOLEAN,
               penalty : 0..MaxPenalty, resumeKey : BOOLEAN] :
        /\ node.connected => node.sessionId # NULL
        /\ (~node.connected /\ node.sessionId # NULL) => node.resumeKey
        /\ ~node.hasStats => node.penalty = 0}

NodeOrders ==
    {order \in [1..3 -> IdealNodeIds] : \A i, j \in 1..3 : i # j => order[i] # order[j]}

InitIdeal ==
    /\ used = [calls |-> 0, env |-> 0]
    /\ pl = NoPlayer
    /\ reg = FALSE
    /\ \E conds \in [IdealNodeIds -> NodeConditions] :
          nodes = [n \in IdealNodeIds |->
                      [NewNode(conds[n].resumeKey) EXCEPT
                          !.connected = conds[n].connected, !.sessionId = conds[n].sessionId,
                          !.ws = IF conds[n].connected THEN "open" ELSE NULL,
                          !.hasStats = conds[n].hasStats, !.penalty = conds[n].penalty]]
    /\ \E order \in NodeOrders : mgr = NewManager(TRUE, order)
    /\ promise = [st |-> "none", err |-> NULL]
    /\ inflight = <<>>
    /\ srv = NULL
    /\ evq = <<>>
    /\ gw = [ch |-> NULL, q |-> <<>>]
    /\ log = <<E("step", "addNode", "")>>

\* manager.getIdealNode(): the log holds what it returned
CallGetIdealNode ==
    /\ log[1] = E("step", "addNode", "")
    /\ log' = <<E("ideal", GetIdealNode(nodes, mgr.order), "")>>
    /\ UNCHANGED <<pl, nodes, reg, promise, inflight, srv, evq, gw, mgr, used>>

NextIdeal == CallGetIdealNode

SpecIdeal == InitIdeal /\ [][NextIdeal]_vars

----------------------------------------------------------------------------
(* The Manager's calls on a guild: createPlayer, destroyPlayer, moveToNode, *)
(* with two READY nodes and either no player or a connected one on n1.      *)

InitMgr ==
    /\ used = [calls |-> 0, env |-> 0]
    /\ pl \in {NoPlayer} \cup CmdPlayers
    /\ reg = (pl # NoPlayer)
    /\ nodes = [n \in NodeIds |-> [ReadyNode(FALSE) EXCEPT !.players = (n = pl.node)]]
    /\ mgr = NewManager(TRUE, <<"n1", "n2">>)
    /\ promise = [st |-> IF pl = NoPlayer THEN "none" ELSE "resolved", err |-> NULL]
    /\ inflight = <<>>
    /\ srv = pl.q.current
    /\ evq = <<>>
    /\ gw = [ch |-> pl.voiceChannelId, q |-> <<>>]
    /\ log = <<E("step", "addNode", "")>>

\* manager.createPlayer(guildId); at most one replaced Player object still
\* has REST calls in flight
MgrCreatePlayer ==
    /\ \A i \in 1..Len(inflight) : inflight[i].owner = pl.id
    /\ mgr.wait => mgr.toMove = pl.id
    /\ Call
    /\ NodeStep(Caught(CreatePlayer(Start(E("step", "createPlayer", "")))))

\* manager.destroyPlayer(guildId)
MgrDestroyPlayer ==
    /\ reg
    /\ Call
    /\ NodeStep(ManagerDestroyPlayer(Start(E("step", "destroyPlayer", ""))))

\* player.moveToNode(targetNode) called on the guild's player
CallMoveToNode ==
    \E target \in NodeIds :
        /\ reg
        /\ Call
        /\ NodeStep(Caught(MoveToNode(Start(E("step", "moveToNode", target)), target, "caller")))

\* manager.removeNode(identifier), one removal at a time
CallRemoveNode ==
    \E n \in NodeIds :
        /\ mgr.removing = NULL
        /\ Call
        /\ NodeStep(RemoveNode(Start(E("step", "removeNode", n)), n))

\* the wait of _handleNodeDisconnection(node, false) is over: it looks for
\* a target again, for the Player object it listed before the wait
RemoveWaitFires ==
    /\ mgr.wait
    /\ LET W == [Start(E("step", "removeWait", mgr.removing)) EXCEPT !.mgr.wait = FALSE]
           targetNode == GetIdealNode(W.nd, W.mgr.order)
       IN NodeStep(IF mgr.toMove = pl.id THEN HandleNodePlayers(W, targetNode)
                   ELSE Swap(HandleNodePlayers(Swap(W), targetNode)))
    /\ UNCHANGED used

NextMgr ==
    \/ MgrCreatePlayer \/ MgrDestroyPlayer \/ CallMoveToNode
    \/ CallRemoveNode \/ RemoveWaitFires
    \/ SockOpen \/ SockReady \/ SockClose \/ StaleClose \/ ReconnectTimerFires
    \/ RestDone

SpecMgr == InitMgr /\ [][NextMgr]_vars

----------------------------------------------------------------------------
(* Rest.makeRequest(endpoint, options) of one node. The request and what   *)
(* became of it is the one record of inflight.                             *)

RetryDelay == 500
MaxRetry == 3
RestNode == "n1"
SessionPath == "/v4/sessions/s1/players/g1"
RestPaths == {"/version", SessionPath}
\* what fetch() can reject with, and the statuses it can resolve with
FetchErrors == {"TimeoutError", "AbortError", "UND_ERR_CONNECT_TIMEOUT", "ECONNREFUSED", "other"}
StatusCodes == {200, 204, 404, 500}

\* makeRequest(endpoint, {attempt}) up to the await of fetch()
MakeRequest(W, endpoint, attempt) ==
    Out([W EXCEPT !.fl = <<[kind |-> "makeRequest", endpoint |-> endpoint,
                            attempt |-> attempt, phase |-> "fetch", delay |-> 0,
                            status |-> 0, error |-> NULL]>>,
                  !.susp = TRUE],
        E("fetch", endpoint, ""))

\* how makeRequest ends: it returns the body or throws an error
RestEnd(W, phase, error, status) ==
    [W EXCEPT !.fl[1].phase = phase, !.fl[1].error = error, !.fl[1].status = status,
              !.susp = FALSE]

\* the catch block of makeRequest: fetch() rejected with e
FetchFailed(W, e) ==
    LET r == W.fl[1] IN
    IF e \in {"TimeoutError", "AbortError", "UND_ERR_CONNECT_TIMEOUT"}
    THEN IF r.attempt < W.nd[RestNode].retryAmount
         THEN [W EXCEPT !.fl[1].phase = "sleep", !.fl[1].delay = RetryDelay * r.attempt]
         ELSE RestEnd(W, "thrown", "Request timed out", 0)
    ELSE IF e = "ECONNREFUSED"
    THEN RestEnd(Out(W, E("emit", "nodeError", "Connection refused for REST request")),
                 "thrown", e, 0)
    ELSE RestEnd(W, "thrown", e, 0)

\* makeRequest after fetch() resolved with a response of this status
FetchResponded(W, status) ==
    IF status >= 200 /\ status <= 299 THEN RestEnd(W, "returned", NULL, status)
    ELSE LET node == W.nd[RestNode]
             W1 == IF status = 404 /\ W.fl[1].endpoint = SessionPath
                   THEN IF node.ws = "open" THEN W
                        ELSE IF node.connected
                        THEN Out(NodeDisconnect(W, RestNode), E("disconnect", RestNode, "4004"))
                        ELSE W
                   ELSE W
         IN RestEnd(W1, "thrown", "REST Error", status)

\* a Node in any condition a request can find it in; the socket is "closing"
\* between the server's close frame and the close event
RestNodeStates ==
    {[ws |-> "open", connected |-> TRUE, sessionId |-> "s1"],
     [ws |-> "open", connected |-> FALSE, sessionId |-> NULL],
     [ws |-> "closing", connected |-> TRUE, sessionId |-> "s1"],
     [ws |-> NULL, connected |-> FALSE, sessionId |-> NULL]}

InitRest ==
    /\ used = [calls |-> 0, env |-> 0]
    /\ pl = NoPlayer
    /\ reg = FALSE
    /\ \E c \in RestNodeStates, resumeKey \in BOOLEAN, retryAmount \in 1..MaxRetry :
          nodes = [n \in NodeIds |->
                      IF n = RestNode
                      THEN [NewNode(resumeKey) EXCEPT !.ws = c.ws, !.connected = c.connected,
                                                      !.sessionId = c.sessionId,
                                                      !.retryAmount = retryAmount]
                      ELSE NewNode(FALSE)]
    /\ mgr = NewManager(TRUE, <<"n1", "n2">>)
    /\ promise = [st |-> "none", err |-> NULL]
    /\ inflight = <<>>
    /\ srv = NULL
    /\ evq = <<>>
    /\ gw = [ch |-> NULL, q |-> <<>>]
    /\ log = <<E("step", "addNode", "")>>

\* rest.makeRequest(endpoint), one request at a time
CallMakeRequest ==
    \E endpoint \in RestPaths :
        /\ IF inflight = <<>> THEN TRUE ELSE inflight[1].phase \in {"returned", "thrown"}
        /\ Call
        /\ NodeStep(MakeRequest(Start(E("step", "makeRequest", endpoint)), endpoint, 1))

\* fetch() rejects
FetchFails ==
    \E e \in FetchErrors :
        /\ inflight # <<>> /\ inflight[1].phase = "fetch"
        /\ NodeStep(FetchFailed(Start(E("step", "fetchFailed", e)), e))
        /\ UNCHANGED used

\* fetch() resolves with a response
FetchResponds ==
    \E status \in StatusCodes :
        /\ inflight # <<>> /\ inflight[1].phase = "fetch"
        /\ NodeStep(FetchResponded(Start(E("step", "fetchResponded", "")), status))
        /\ UNCHANGED used

\* the wait before a retry is over: makeRequest calls itself with attempt + 1
RetryTimerFires ==
    /\ inflight # <<>> /\ inflight[1].phase = "sleep"
    /\ LET r == inflight[1]
       IN NodeStep(MakeRequest(Start(E("step", "retry", r.endpoint)), r.endpoint, r.attempt + 1))
    /\ UNCHANGED used

NextRest == CallMakeRequest \/ FetchFails \/ FetchResponds \/ RetryTimerFires

SpecRest == InitRest /\ [][NextRest]_vars

----------------------------------------------------------------------------
(* A Queue on its own: its methods and the setter of current, called in    *)
(* any order. The queue is that of pl.                                     *)

MaxUpcoming == 3

\* a history of n tracks
History(n) == [i \in 1..n |-> IF i % 2 = 1 THEN "A" ELSE "B"]

\* a Queue with a short or a long history: one it has after that many
\* tracks were current
QueueStates ==
    {[tracks |-> ts, previousTracks |-> History(n), current |-> c, loop |-> l] :
        ts \in {<<>>, <<"A">>, <<"B", "A">>},
        n \in {0, HistoryLimit - 1, HistoryLimit},
        c \in {NULL, "A", "B"},
        l \in {LOOP_NONE, LOOP_TRACK, LOOP_QUEUE}}

InitQueue ==
    /\ used = [calls |-> 0, env |-> 0]
    /\ \E q \in QueueStates : pl = [NewPlayer("n1") EXCEPT !.q = q]
    /\ reg = TRUE
    /\ nodes = [n \in NodeIds |-> ReadyNode(FALSE)]
    /\ mgr = NewManager(TRUE, <<"n1", "n2">>)
    /\ promise = [st |-> "none", err |-> NULL]
    /\ inflight = <<>>
    /\ srv = NULL
    /\ evq = <<>>
    /\ gw = [ch |-> NULL, q |-> <<>>]
    /\ log = <<E("step", "new Queue", "")>>

\* a method of the queue was called: the queue it leaves and what it returned
QueueStep(name, q, ret) ==
    /\ Call
    /\ Len(q.tracks) <= MaxUpcoming
    /\ pl' = [pl EXCEPT !.q = q]
    /\ log' = <<E("step", name, ""), E("return", name, ret)>>
    /\ UNCHANGED <<reg, nodes, mgr, promise, inflight, srv, evq, gw>>

\* queue.add(track, position) and queue.add(tracks, position)
QueueAdd ==
    \E ts \in {<<"A">>, <<"B">>, <<"B", "A">>}, isArray \in BOOLEAN, isNum \in BOOLEAN,
       position \in {-1, 0, 1, MaxUpcoming + 1} :
        /\ ~isArray => Len(ts) = 1
        /\ ~isNum => position = 0
        /\ QueueStep("add",
                     IF isArray THEN QAddAll(pl.q, ts, isNum, position)
                     ELSE QAdd(pl.q, ts[1], isNum, position),
                     NULL)

\* queue.poll()
QueuePoll ==
    QueueStep("poll", QPoll(pl.q).q, QPoll(pl.q).ret)

\* queue.remove(index) and queue.remove(track)
QueueRemove ==
    \/ \E index \in -1..MaxUpcoming :
          QueueStep("remove", QRemoveAt(pl.q, index).q, QRemoveAt(pl.q, index).ret)
    \/ \E track \in Tracks :
          QueueStep("remove", QRemoveTrack(pl.q, track).q, QRemoveTrack(pl.q, track).ret)

\* queue.clear()
QueueClear ==
    QueueStep("clear", QClear(pl.q), NULL)

\* queue.shuffle()
QueueShuffle ==
    \E ts \in Shuffles(pl.q.tracks, Len(pl.q.tracks)) :
        QueueStep("shuffle", [pl.q EXCEPT !.tracks = ts], NULL)

\* queue.setLoop(mode): a mode out of range throws and changes nothing
QueueSetLoop ==
    \E mode \in {LOOP_NONE - 1, LOOP_NONE, LOOP_TRACK, LOOP_QUEUE, LOOP_QUEUE + 1} :
        IF mode >= LOOP_NONE /\ mode <= LOOP_QUEUE
        THEN QueueStep("setLoop", [pl.q EXCEPT !.loop = mode], NULL)
        ELSE QueueStep("setLoop", pl.q, "Invalid loop mode")

\* queue.current = track
QueueAssignCurrent ==
    \E track \in Tracks \cup {NULL} :
        QueueStep("current", QSetCurrent(pl.q, track), NULL)

NextQueue ==
    \/ QueueAdd \/ QueuePoll \/ QueueRemove \/ QueueClear \/ QueueShuffle
    \/ QueueSetLoop \/ QueueAssignCurrent

SpecQueue == InitQueue /\ [][NextQueue]_vars

----------------------------------------------------------------------------
(* Queue progression: a connected player that has played 20 tracks and is   *)
(* playing track A, in each loop mode, with or without an upcoming track.   *)
(* The response of a REST call arrives (or the call times out) and the      *)
(* socket delivers the frames it received: each happens once it is due.     *)

InitProg ==
    /\ used = [calls |-> 0, env |-> 0]
    /\ \E mode \in {LOOP_NONE, LOOP_TRACK, LOOP_QUEUE}, ts \in {<<>>, <<"B">>} :
          pl = [ConnectedPlayer EXCEPT !.state = "PLAYING", !.playing = TRUE,
                                       !.q.current = "A", !.q.tracks = ts,
                                       !.q.previousTracks = History(HistoryLimit),
                                       !.q.loop = mode, !.loop = mode]
    /\ nodes = [n \in Nodes |-> [ReadyNode(FALSE) EXCEPT !.players = TRUE]]
    /\ mgr = NewManager(TRUE, <<"n1">>)
    /\ reg = TRUE
    /\ promise = [st |-> "none", err |-> NULL]
    /\ inflight = <<>>
    /\ srv = pl.q.current
    /\ evq = <<>>
    /\ gw = [ch |-> "c1", q |-> <<>>]
    /\ log = <<E("step", "createPlayer", "")>>

\* play(track, options), while the budget of this specification lasts
CallPlayProg ==
    /\ used.calls < MaxProgCalls
    /\ CallPlay

NextProg ==
    \/ CallPlayProg
    \/ RestDone \/ Frame
    \/ ServerTrackFinished

\* weak fairness of RestDone, written out: RestDone is enabled only while a
\* REST call is in flight, and only its steps are labelled "rest"
RestDoneFair ==
    []<>(inflight = <<>>) \/ []<><<log'[1].t = "rest">>_vars

SpecProg ==
    /\ InitProg
    /\ [][NextProg]_vars
    /\ WF_vars(Frame)
    /\ RestDoneFair

----------------------------------------------------------------------------
(* Properties *)

RangeOf(seq) == {seq[i] : i \in 1..Len(seq)}
Count(seq, e) == Cardinality({i \in 1..Len(seq) : seq[i] = e})
Before(seq, e1, e2) ==
    \E i \in 1..Len(seq), j \in 1..Len(seq) : i < j /\ seq[i] = e1 /\ seq[j] = e2

\* the player's node is READY: connected, with a session
NodeIsReady == pl.node # NULL /\ nodes[pl.node].connected /\ nodes[pl.node].sessionId # NULL

\* the node hands the frame at the head of the socket's queue to the player
Handles(type, arg) ==
    /\ evq # <<>>
    /\ Head(evq).t = type
    /\ Head(evq).a = arg
    /\ log'[1] = E("step", type, arg)
    /\ nodes["n1"].players
    /\ pl.state # "DESTROYED"

\* C1: when the voice PATCH of a connect that is still waiting (state
\* WAITING_FOR_SERVER, promise pending, the player still bound to its node)
\* succeeds, the player ends the step with connected = true and
\* state = STOPPED, and the promise is resolved.
C1_ConnectSucceeds ==
    [][(/\ log'[1] = E("rest", "voiceServer", "true")
        /\ pl.state = "WAITING_FOR_SERVER"
        /\ pl.node # NULL
        /\ promise.st = "pending")
       => (/\ pl'.connected
           /\ pl'.state = "STOPPED"
           /\ promise'.st = "resolved"
           /\ Count(log', E("resolve", "", "")) = 1)]_vars

C1_Connected ==
    /\ log[1] = E("rest", "voiceServer", "true")
    /\ E("resolve", "", "") \in RangeOf(log)
    /\ pl.connected
    /\ pl.state = "STOPPED"
    /\ promise.st = "resolved"

\* C2: when, during a connect (state CONNECTING or WAITING_FOR_SERVER), the
\* handshake timer fires or the voice PATCH fails, the state becomes
\* CONNECTION_FAILED, the promise is rejected with the timeout / REST error,
\* an op 4 leave is sent, and only then the player is destroyed.
C2_ConnectFailure ==
    [][(/\ pl.state \in {"CONNECTING", "WAITING_FOR_SERVER"}
        /\ promise.st = "pending"
        /\ ~pl.disconnecting
        /\ \/ log'[1] = E("step", "timeout", "")
           \/ log'[1] = E("rest", "voiceServer", "false"))
       => (/\ promise'.st = "rejected"
           /\ promise'.err = IF log'[1].t = "rest" THEN "rest" ELSE "timeout"
           /\ Before(log', E("state", "CONNECTION_FAILED", ""), E("op4", NULL, ""))
           /\ Before(log', E("op4", NULL, ""), E("state", "DESTROYED", ""))
           /\ ~Before(log', E("state", "DESTROYED", ""), E("state", "CONNECTION_FAILED", ""))
           /\ pl'.state = "DESTROYED")]_vars

\* C2, the case reached: the voice PATCH failed and the promise carries the
\* error of disconnect(), not the REST error
C2_RejectedAsDisconnected ==
    /\ log[1] = E("rest", "voiceServer", "false")
    /\ promise = [st |-> "rejected", err |-> "disconnected"]
    /\ Before(log, E("state", "DESTROYED", ""), E("state", "CONNECTION_FAILED", ""))

\* C3: at every instant, state = PLAYING implies that there is a current
\* track and that the player's node is connected.
C3_PlayingInvariant ==
    pl.state = "PLAYING" =>
        (pl.q.current # NULL /\ pl.node # NULL /\ nodes[pl.node].connected)

\* C3, the case reached: the node's socket has closed under a playing player
C3_PlayingOnClosedNode ==
    /\ pl.state = "PLAYING"
    /\ pl.q.current # NULL
    /\ pl.node # NULL
    /\ ~nodes[pl.node].connected
    /\ log[1].a = "nodeClose"

\* the player is connected, on a READY node, and a track is current
PlayingOn(track) ==
    /\ IsConnected(pl)
    /\ NodeIsReady
    /\ pl.q.current = track
    /\ track # NULL

\* C4: with loop = NONE, handling TrackEndEvent{finished} for the current
\* track takes the head of a non-empty upcoming queue, makes it current and
\* issues a PATCH with it; with an empty upcoming queue it emits queueEnd
\* exactly once and leaves state = STOPPED and current = null.
C4_TrackEndNoLoop ==
    [][(/\ Handles("TrackEndEvent", "finished")
        /\ pl.loop = LOOP_NONE
        /\ PlayingOn(pl.q.current))
       => IF pl.q.tracks # <<>>
          THEN /\ pl'.q.current = Head(pl.q.tracks)
               /\ pl'.q.tracks = Tail(pl.q.tracks)
               /\ \E nr \in {"true", "false"} :
                     E("patch", Head(pl.q.tracks), nr) \in RangeOf(log')
          ELSE /\ Count(log', E("emit", "queueEnd", "")) = 1
               /\ pl'.state = "STOPPED"
               /\ pl'.q.current = NULL]_vars

\* C4, the case reached: the handler threw at queue.addToHistory
C4_TrackEndThrows ==
    /\ log = <<E("step", "TrackEndEvent", "finished"), E("throw", "TypeError: addToHistory", "")>>
    /\ pl.loop = LOOP_NONE
    /\ PlayingOn(pl.q.current)

\* C5: with loop = TRACK, current = T and an empty upcoming queue, handling
\* TrackEndEvent{finished} issues exactly one PATCH, with T, and emits no
\* queueEnd.
C5_TrackEndLoopTrack ==
    [][(/\ Handles("TrackEndEvent", "finished")
        /\ pl.loop = LOOP_TRACK
        /\ pl.q.tracks = <<>>
        /\ PlayingOn(pl.q.current))
       => (/\ Cardinality({i \in 1..Len(log') : log'[i].t = "patch"}) = 1
           /\ \E nr \in {"true", "false"} : E("patch", pl.q.current, nr) \in RangeOf(log')
           /\ E("emit", "queueEnd", "") \notin RangeOf(log'))]_vars

\* C5, the case reached: no PATCH was issued for the looped track
C5_NoReplay ==
    /\ log = <<E("step", "TrackEndEvent", "finished"), E("throw", "TypeError: addToHistory", "")>>
    /\ pl.loop = LOOP_TRACK
    /\ pl.q.tracks = <<>>
    /\ PlayingOn(pl.q.current)

\* C6: with loop = QUEUE, handling TrackEndEvent{finished} for track P keeps
\* the set of tracks in current + upcoming, P going to the tail before the
\* next track is taken; with an empty upcoming queue P is played again.
C6_TrackEndLoopQueue ==
    [][(/\ Handles("TrackEndEvent", "finished")
        /\ pl.loop = LOOP_QUEUE
        /\ PlayingOn(pl.q.current))
       => (/\ RangeOf(pl'.q.tracks) \cup {pl'.q.current}
                = RangeOf(pl.q.tracks) \cup {pl.q.current}
           /\ pl'.q.current = Head(Append(pl.q.tracks, pl.q.current))
           /\ pl'.q.tracks = Tail(Append(pl.q.tracks, pl.q.current))
           /\ \E nr \in {"true", "false"} :
                 E("patch", pl'.q.current, nr) \in RangeOf(log'))]_vars

\* C6, the case reached: the queue did not cycle
C6_NoCycle ==
    /\ log = <<E("step", "TrackEndEvent", "finished"), E("throw", "TypeError: addToHistory", "")>>
    /\ pl.loop = LOOP_QUEUE
    /\ PlayingOn(pl.q.current)

\* C7: skip() on a connected player that plays a track issues a PATCH with
\* the next upcoming track if there is one, and otherwise stops the player:
\* state = STOPPED and current = null.
C7_Skip ==
    [][(/\ log'[1] = E("step", "skip", "")
        /\ IsPlaying(pl)
        /\ PlayingOn(pl.q.current))
       => IF pl.q.tracks # <<>>
          THEN \E nr \in {"true", "false"} :
                  E("patch", Head(pl.q.tracks), nr) \in RangeOf(log')
          ELSE pl'.state = "STOPPED" /\ pl'.q.current = NULL]_vars

\* C7, the case reached: skip() threw at queue.peek and the track plays on
C7_SkipThrows ==
    /\ log = <<E("step", "skip", ""), E("throw", "TypeError: peek", "")>>
    /\ IsPlaying(pl)
    /\ PlayingOn(pl.q.current)

\* C8: play(X) while another track Y plays issues a PATCH with X whose
\* noReplace parameter is false.
C8_PlayReplaces ==
    [][\A x \in Tracks :
         (/\ log'[1] = E("step", "play", x)
          /\ IsPlaying(pl)
          /\ pl.q.current # x
          /\ PlayingOn(pl.q.current))
         => E("patch", x, "false") \in RangeOf(log')]_vars

\* C8, the case reached: the PATCH of the replacement says noReplace = true
C8_PatchNoReplace ==
    \E x \in Tracks :
        /\ log = <<E("step", "play", x), E("patch", x, "true")>>
        /\ pl.q.current = x
        /\ pl.q.previousTracks # <<>>
        /\ Head(pl.q.previousTracks) # x
        /\ pl.state = "PLAYING"

\* C9: the acknowledgement of play()'s PATCH does not make the state
\* PLAYING; only TrackStartEvent does.
C9_AckKeepsState ==
    [][(log'[1] = E("rest", "play", "true") /\ pl.state # "PLAYING")
       => pl'.state # "PLAYING"]_vars

\* C9, the case reached: PLAYING after the acknowledgement, before any
\* TrackStartEvent (the playing flag is still false)
C9_PlayingOnAck ==
    /\ log[1] = E("rest", "play", "true")
    /\ pl.state = "PLAYING"
    /\ ~pl.playing

\* what stop() decides on: the player was playing or paused
WasPlayingOrPaused == pl.state \in {"PLAYING", "PAUSED"} \/ (pl.paused /\ pl.state # "STOPPED")

\* the effects of stop(clearQueue) that do not depend on the PATCH
StopEffects(clearQueue) ==
    /\ pl'.state = "STOPPED"
    /\ pl'.q.current = NULL
    /\ pl'.position = 0
    /\ clearQueue => pl'.q.tracks = <<>>
    /\ ~clearQueue => pl'.q.tracks = pl.q.tracks

StopPatched ==
    /\ E("patch", NULL, "false") \in RangeOf(log')
    /\ Len(inflight') = Len(inflight) + 1
    /\ inflight'[Len(inflight')].req = E("patch", NULL, "false")

\* C10 (as the code has it): stop(clearQueue) on a non-destroyed player whose
\* node is READY leaves state = STOPPED, current = null, position = 0,
\* empties the upcoming queue iff clearQueue, and issues the PATCH
\* {encodedTrack: null} iff the player was playing or paused.
C10_Stop ==
    [][\A cq \in BOOLEAN :
         (/\ log'[1] = E("step", "stop", B2S(cq))
          /\ pl.state # "DESTROYED"
          /\ NodeIsReady)
         => (StopEffects(cq) /\ (StopPatched <=> WasPlayingOrPaused))]_vars

\* C10 as stated: the PATCH is issued whenever the node is READY
C10_StopAlwaysPatches ==
    [][\A cq \in BOOLEAN :
         (/\ log'[1] = E("step", "stop", B2S(cq))
          /\ pl.state # "DESTROYED"
          /\ NodeIsReady)
         => (StopEffects(cq) /\ StopPatched)]_vars

\* C10, the case reached: a stop(true) that stopped a playing track with the
\* PATCH
C10_Stopped ==
    /\ log = <<E("step", "stop", "true"), E("patch", NULL, "false")>>
    /\ inflight # <<>>
    /\ inflight[Len(inflight)].kind = "stop"
    /\ pl.state = "STOPPED"
    /\ pl.q.current = NULL
    /\ pl.q.tracks = <<>>
    /\ pl.position = 0
    /\ NodeIsReady

\* the teardown of destroy() is complete: the player is in no node's player
\* set, not in the manager's map, and bound to no node
TornDown(p, nd, r) == ~r /\ p.node = NULL /\ \A n \in DOMAIN nd : ~nd[n].players

PlayPatchSent ==
    /\ Len(inflight') = Len(inflight) + 1
    /\ inflight'[Len(inflight')].kind = "play"

\* C12: a play(track) whose PATCH fails leaves current, the upcoming queue,
\* history and state as they were: neither the step that sends the PATCH nor
\* the step that handles its failure changes them.
C12_PlayFailureKeepsState ==
    [][/\ \A x \in Tracks :
             (log'[1] = E("step", "play", x) /\ PlayPatchSent)
             => (pl'.q = pl.q /\ pl'.state = pl.state)
       /\ log'[1] = E("rest", "play", "false")
             => (pl'.q = pl.q /\ pl'.state = pl.state)]_vars

\* C12, the case reached: the failure handler has put the track of the failed
\* play into history and left the player stopped without a current track
C12_PlayFailureChanged ==
    /\ log[1] = E("rest", "play", "false")
    /\ E("emit", "trackException", "") \in RangeOf(log)
    /\ pl.q.previousTracks # <<>>
    /\ pl.q.current = NULL
    /\ pl.state = "STOPPED"

\* a PATCH of pause / seek / setVolume was sent in this step
CommandPatchSent ==
    /\ Len(inflight') = Len(inflight) + 1
    /\ inflight'[Len(inflight')].kind \in {"pause", "seek", "volume"}

\* C13: when the PATCH of pause, seek or setVolume fails, the error is thrown
\* to the caller and the paused flag, the state and the volume are as before
\* the call: neither the step that sends the PATCH nor the step that handles
\* its failure changes them.
C13_CommandFailureKeepsState ==
    [][/\ CommandPatchSent
             => (pl'.paused = pl.paused /\ pl'.state = pl.state /\ pl'.volume = pl.volume)
       /\ \A kind \in {"pause", "seek", "volume"} :
             log'[1] = E("rest", kind, "false")
             => (/\ log'[Len(log')] = E("throw", "rest error", "")
                 /\ pl'.paused = pl.paused
                 /\ pl'.state = pl.state
                 /\ pl'.volume = pl.volume)]_vars

\* C13, the case reached: a pause(true) of a playing player has failed
C13_PauseFailed ==
    /\ log[1] = E("rest", "pause", "false")
    /\ log[Len(log)] = E("throw", "rest error", "")
    /\ pl.state = "PLAYING"
    /\ ~pl.paused
    /\ pl.q.current = "A"

\* the events the player treats as fatal
FatalEvents ==
    {<<"TrackExceptionEvent", "fault">>} \cup
    {<<"WebSocketClosedEvent", code>> : code \in {"4004", "4006", "4014"} \cap CloseCodes}

\* a disconnect(true) waits for the PATCH of its stop(false)
DestroyPending(fl) ==
    \E i \in 1..Len(fl) : fl[i].k.then = "disconnect" /\ fl[i].k.destroy

\* C14: handling a TrackExceptionEvent of severity fault or a
\* WebSocketClosedEvent with code 4004, 4006 or 4014 destroys the player: it
\* is DESTROYED at the end of the step (or its disconnect(true) waits for the
\* stop PATCH), its removal is done or waits for the DELETE, and the step
\* starts no track.
C14_FatalEventDestroys ==
    [][\A ev \in FatalEvents :
         Handles(ev[1], ev[2])
         => (/\ pl'.state = "DESTROYED" \/ DestroyPending(inflight')
             /\ pl'.state = "DESTROYED"
                   => \/ TornDown(pl', nodes', reg')
                      \/ \E i \in 1..Len(inflight') : inflight'[i].kind = "destroy"
             /\ \A i \in 1..Len(log') : log'[i].t = "patch" => log'[i].a = NULL)]_vars

\* C14, the case reached: the handler of a fault exception threw at
\* queue.buildTrackFromEncoded and the player lives on
C14_FaultNotDestroyed ==
    /\ log = <<E("step", "TrackExceptionEvent", "fault"),
               E("throw", "TypeError: buildTrackFromEncoded", "")>>
    /\ pl.state # "DESTROYED"
    /\ reg
    /\ IsConnected(pl)

\* the event e is among what the step emitted
Emitted(out, e) == \E i \in 1..Len(out) : out[i] = e

\* the socket of node n closed with the code in this step
Closes(n, code) ==
    log'[1] \in {E("close", n, code), E("closeReady", n, code)}

\* a player is registered, bound to node n and not destroyed
BoundTo(p, r, n) == r /\ p.node = n /\ p.state # "DESTROYED"

\* C15: when the socket of a node closes with a permanent code, nodeError is
\* emitted, no reconnect is scheduled, and a player bound to the node is, at
\* the end of the step, being moved, bound to another node or destroyed.
C15_PermanentClose ==
    [][\A n \in NodeIds, code \in PermanentCodes :
          Closes(n, code)
          => (/\ Emitted(log', E("emit", "nodeError", "Permanent error on close"))
              /\ ~nodes'[n].reconnectTimer
              /\ BoundTo(pl, reg, n) => (pl'.moving \/ ~BoundTo(pl', reg', n)))]_vars

\* node n1 closed with 4004 and its player is still bound to it, untouched
C15_PlayerLeftOnFailedNode ==
    /\ log[1] = E("closeReady", "n1", "4004")
    /\ Emitted(log, E("emit", "nodeError", "Permanent error on close"))
    /\ ~nodes["n1"].connected
    /\ ~nodes["n1"].reconnectTimer
    /\ nodes["n2"].connected
    /\ BoundTo(pl, reg, "n1")
    /\ ~pl.moving
    /\ inflight = <<>>

Min(a, b) == IF a < b THEN a ELSE b

\* the step schedules a reconnect of node n
Schedules(n) == ~nodes[n].reconnectTimer /\ nodes'[n].reconnectTimer

\* the socket of node n closes, not by the caller and with a code that is
\* not permanent, after maxTries reconnects were scheduled in a row
Exhausted(n) ==
    /\ \E code \in NodeCloseCodes \ PermanentCodes : Closes(n, code)
    /\ nodes[n].reconnectAttempt >= MaxTries
    /\ mgr.userId
    /\ mgr.explicitDisconnect # n
    /\ ~nodes[n].reconnectTimer

\* C17: a reconnect scheduled at attempt k waits min(initialDelay * 2^k,
\* maxDelay) and makes the attempt k + 1; an open socket has attempt 0; the
\* attempt never exceeds maxTries; and the close that finds maxTries
\* attempts used schedules nothing, emits nodeError and leaves a player of
\* the node being moved, bound to another node or destroyed.
C17_BoundedReconnect ==
    [][\A n \in NodeIds :
          /\ Schedules(n)
             => (/\ nodes'[n].delay = Min(InitialDelay * 2 ^ nodes[n].reconnectAttempt, MaxDelay)
                 /\ nodes'[n].reconnectAttempt = nodes[n].reconnectAttempt + 1)
          /\ nodes'[n].ws = "open" => nodes'[n].reconnectAttempt = 0
          /\ nodes'[n].reconnectAttempt <= MaxTries
          /\ Exhausted(n)
             => (/\ ~nodes'[n].reconnectTimer
                 /\ nodes'[n].ws = NULL
                 /\ Emitted(log', E("emit", "nodeError", "Max reconnect attempts"))
                 /\ BoundTo(pl, reg, n) => (pl'.moving \/ ~BoundTo(pl', reg', n)))]_vars

\* node n1 gave up after maxTries reconnects, the last of them delayed by
\* maxDelay, and its player is on the way to n2
C17_GaveUp ==
    /\ log[1] = E("close", "n1", "1006")
    /\ Emitted(log, E("emit", "nodeError", "Max reconnect attempts"))
    /\ nodes["n1"].reconnectAttempt = MaxTries
    /\ nodes["n1"].delay = MaxDelay
    /\ ~nodes["n1"].reconnectTimer
    /\ reg /\ pl.node = "n2" /\ pl.moving
    /\ \E i \in 1..Len(inflight) : inflight[i].kind = "move"

\* the step dials node n with the header
Dials(n, header) == Emitted(log', E("dial", n, header))

\* C18: Node.disconnect() and the close event that follows it leave
\* sessionId null on a node without a resumeKey and keep it on a node with
\* one; a kept sessionId stays until the next dial; and a dial sends
\* Session-Id when there is a sessionId, else Resume-Key when there is a
\* resumeKey, else neither.
C18_SessionCache ==
    [][\A n \in NodeIds :
          /\ log'[1] \in {E("step", "nodeDisconnect", n), E("step", "staleClose", n)}
             => nodes'[n].sessionId = IF nodes[n].resumeKey THEN nodes[n].sessionId ELSE NULL
          /\ (nodes[n].resumeKey /\ nodes[n].sessionId # NULL)
             => nodes'[n].sessionId = nodes[n].sessionId
          /\ \A header \in {"Session-Id", "Resume-Key", "none"} :
                Dials(n, header)
                => header = IF nodes[n].sessionId # NULL THEN "Session-Id"
                            ELSE IF nodes[n].resumeKey THEN "Resume-Key" ELSE "none"]_vars

\* disconnect() was called on n1, READY with a resumeKey: the session is kept
C18_SessionKept ==
    /\ log[1] = E("step", "nodeDisconnect", "n1")
    /\ nodes["n1"].resumeKey
    /\ nodes["n1"].sessionId = "s1"
    /\ nodes["n1"].ws = NULL
    /\ ~nodes["n1"].connected
    /\ mgr.explicitDisconnect = "n1"

\* C19: while the user id is unset no node has a socket, and once the user
\* id has been set every node eventually dials.
C19_DialsOnceUserIdSet ==
    /\ [](~mgr.userId => \A n \in NodeIds : nodes[n].ws = NULL)
    /\ \A n \in NodeIds : (log[1] = E("step", "setUserId", "")) ~> (nodes[n].ws # NULL)

\* the user id has been set and no node dials or waits to dial
C19_NeverDials ==
    /\ log[1] = E("step", "setUserId", "")
    /\ mgr.userId
    /\ \A n \in NodeIds : nodes[n].ws = NULL /\ ~nodes[n].reconnectTimer /\ nodes[n].stale = 0

\* node n is READY
Ready(n) == nodes[n].connected /\ nodes[n].sessionId # NULL

\* C16: when the socket of a READY node closes with code 1006 while the
\* other node is READY, a player bound to the closed node is eventually
\* bound to another node, destroyed or gone from the Manager.
C16_Failover ==
    \A n \in NodeIds :
        (/\ log[1] = E("closeReady", n, "1006")
         /\ BoundTo(pl, reg, n)
         /\ \E m \in NodeIds \ {n} : Ready(m))
        ~> ~BoundTo(pl, reg, n)

\* n1 was lost and came back by its first reconnect; its player never left
C16_StayedOnLostNode ==
    /\ log[1] = E("step", "ready", "n1")
    /\ used.env > 0
    /\ Ready("n1") /\ Ready("n2")
    /\ BoundTo(pl, reg, "n1")
    /\ ~pl.moving
    /\ inflight = <<>>
    /\ \A n \in NodeIds : ~nodes[n].reconnectTimer /\ nodes[n].stale = 0

\* the place of node n in the Manager's map, which keeps insertion order
Place(n) == CHOOSE i \in 1..Len(mgr.order) : mgr.order[i] = n

\* C20: getIdealNode() returns no node exactly when every node has
\* Penalties = Infinity; a node it returns has the least penalty of all
\* nodes and, among the nodes of that penalty, was inserted first.
C20_IdealNode ==
    log[1].t = "ideal"
    => LET ideal == log[1].a
           all == DOMAIN nodes
       IN /\ ideal = NULL <=> \A n \in all : Penalties(nodes[n]) = Infinity
          /\ ideal # NULL
             => \A n \in all :
                   /\ Penalties(nodes[ideal]) <= Penalties(nodes[n])
                   /\ Penalties(nodes[ideal]) = Penalties(nodes[n]) => Place(ideal) <= Place(n)

\* getIdealNode() returned n2, READY and without stats, when no node had a
\* finite penalty and n1, not connected, was inserted before it
C20_IdealWithoutStats ==
    /\ log[1] = E("ideal", "n2", "")
    /\ mgr.order = <<"n1", "n2", "n3">>
    /\ \A n \in DOMAIN nodes : Penalties(nodes[n]) = Infinity
    /\ nodes["n2"].connected /\ ~nodes["n2"].hasStats
    /\ ~nodes["n1"].connected

\* C22: when the Manager handles a voice state update of the bot with
\* channel_id = null and the guild has a player that is not destroyed, the
\* player is DESTROYED at the end of the step (or its disconnect(true) waits
\* for the stop PATCH), and its removal from the Manager's map is done or
\* waits for the DELETE.
C22_NullChannelDestroys ==
    [][(/\ log'[1] = E("step", "voiceStateUpdate", NULL)
        /\ reg
        /\ pl.state # "DESTROYED")
       => (/\ pl'.state = "DESTROYED" \/ DestroyPending(inflight')
           /\ pl'.state = "DESTROYED"
              => \/ ~reg'
                 \/ \E i \in 1..Len(inflight') : inflight'[i].kind = "destroy")]_vars

\* the bot was put out of voice while connected: the handler threw, and the
\* player is still registered, not destroyed and held as connected
C22_SurvivedNullChannel ==
    /\ log = <<E("step", "voiceStateUpdate", NULL),
               E("throw", "ReferenceError: oldState is not defined", "")>>
    /\ reg
    /\ pl.state \in {"STOPPED", "PLAYING", "PAUSED"}
    /\ pl.connected
    /\ pl.voiceChannelId = NULL
    /\ inflight = <<>>

\* C21: the guild never has two Player objects that are not destroyed, and
\* its player, while not destroyed (and not in the middle of a move), is in
\* the Manager's map and in the player set of its node.
C21_OnePlayerRegistered ==
    /\ ~(pl.state # "DESTROYED" /\ mgr.old.state # "DESTROYED")
    /\ (pl.state # "DESTROYED" /\ ~pl.moving)
       => (reg /\ pl.node # NULL /\ nodes[pl.node].players)

\* the DELETE of the destroyed player's destroy() settled after createPlayer
\* had made a new player: the new one is alive but in neither map
C21_NewPlayerUnregistered ==
    /\ log[1] \in {E("rest", "destroy", "true"), E("rest", "destroy", "false")}
    /\ pl.state = "INSTANTIATED"
    /\ mgr.old.state = "DESTROYED"
    /\ pl.node # NULL
    /\ ~reg
    /\ ~nodes[pl.node].players
    /\ inflight = <<>>

\* the only move PATCH in flight is that of the guild's player, at place i
MovePatch(i) ==
    /\ i \in 1..Len(inflight)
    /\ inflight[i].kind = "move"
    /\ inflight[i].owner = pl.id
    /\ \A j \in 1..Len(inflight) : inflight[j].kind = "move" => j = i

\* token, endpoint and sessionId of the voice connection are all there
VoiceComplete(p) ==
    p.voiceToken # NULL /\ p.voiceEndpoint # NULL /\ p.voiceSessionId # NULL

\* the guild's player has a move PATCH in flight in fl
Patching(fl, p) == \E i \in 1..Len(fl) : fl[i].kind = "move" /\ fl[i].owner = p.id

\* C23: an accepted moveToNode(target) takes its snapshot (track, pause
\* state, voice only when complete) from the player as it is at the call;
\* the step that sends the PATCH sends it to the target with that snapshot
\* and leaves the player bound to the target, in the target's player set
\* and not in the old node's; and when the PATCH succeeds on a player that
\* no destroy() has touched meanwhile (not DESTROYED, still bound to the
\* target and in its set), the binding stays, playerMove is emitted and no
\* move is in progress; the target's set holds the player unless a
\* removeNode of the target, which awaited this move, empties it in the same
\* step.
C23_MoveRebinds ==
    [][/\ \A target \in NodeIds :
             (log'[1] = E("step", "moveToNode", target) /\ ~pl.moving /\ pl'.moving)
             => LET t == inflight'[Len(inflight')]
                IN /\ Len(inflight') = Len(inflight) + 1
                   /\ t.kind \in {"moveDelete", "move"}
                   /\ t.to = target /\ t.old = pl.node
                   /\ t.track = pl.q.current /\ t.pause = pl.paused
                   /\ t.num = (IF pl.q.current = NULL THEN 0 ELSE pl.position)
                   /\ t.voice = VoiceComplete(pl)
       /\ (pl'.id = pl.id /\ ~Patching(inflight, pl) /\ Patching(inflight', pl'))
          => LET t == inflight'[Len(inflight')]
             IN /\ t.kind = "move" /\ t.node = t.to
                /\ t.req = E("patchMove", t.track, B2S(t.voice))
                /\ Emitted(log', t.req)
                /\ pl'.node = t.to
                /\ nodes'[t.to].players
                /\ t.old # NULL => ~nodes'[t.old].players
       /\ \A i \in 1..Len(inflight) :
             (/\ MovePatch(i)
              /\ log'[1] = E("rest", "move", "true")
              /\ pl.state # "DESTROYED"
              /\ pl.node = inflight[i].to
              /\ nodes[pl.node].players)
             => LET t == inflight[i]
                IN /\ pl'.node = t.to
                   /\ nodes'[t.to].players \/ Emitted(log', E("removedNode", t.to, ""))
                   /\ Emitted(log', E("emit", "playerMove", t.to))
                   /\ ~pl'.moving]_vars

\* the player that played on n1 has been moved to n2
C23_Moved ==
    /\ log[1] = E("rest", "move", "true")
    /\ Emitted(log, E("emit", "playerMove", "n2"))
    /\ pl.node = "n2"
    /\ pl.state = "PLAYING"
    /\ pl.q.current = "A"
    /\ reg
    /\ nodes["n2"].players
    /\ ~nodes["n1"].players
    /\ ~pl.moving

\* the step ends a moveToNode of the guild's player without playerMove
MoveEndsInFailure ==
    /\ pl.moving
    /\ pl'.id = pl.id
    /\ ~pl'.moving
    /\ \A n \in NodeIds : ~Emitted(log', E("emit", "playerMove", n))

\* C24: when a moveToNode of the guild's player ends in failure, the player
\* is DESTROYED, gone from the Manager's map and in the player set of no
\* node.
C24_FailedMoveDestroys ==
    [][MoveEndsInFailure
       => (/\ pl'.state = "DESTROYED"
           /\ ~reg'
           /\ \A n \in NodeIds : ~nodes'[n].players)]_vars

\* the PATCH to n2 failed: the player is destroyed and unregistered, and the
\* player set of n2 still holds it
C24_LeftInTargetSet ==
    /\ Emitted(log, E("throw", "move failed", ""))
    /\ pl.state = "DESTROYED"
    /\ pl.node = NULL
    /\ ~pl.moving
    /\ ~reg
    /\ ~nodes["n1"].players
    /\ nodes["n2"].players
    /\ inflight = <<>>

\* node n is no longer in the Manager's node map
Removed(m, n) == \A i \in 1..Len(m.order) : m.order[i] # n

\* the Player object that removeNode listed for node n, as it is after the step
Listed ==
    IF mgr.toMove = pl'.id THEN pl' ELSE mgr'.old

\* C25: at the step that completes removeNode(id) the Player object that was
\* bound to the node when removeNode was called is destroyed or no longer
\* bound to that node, and the node is out of the Manager's node map.
C25_ListedPlayerSettled ==
    [][\A n \in NodeIds :
          (Emitted(log', E("removedNode", n, "")) /\ mgr.listed)
          => /\ Removed(mgr', n)
             /\ Listed.state = "DESTROYED" \/ Listed.node # n]_vars

\* C25 witness: the step in which the move of the listed player succeeds
\* completes removeNode: the node is out of the map and the player, registered
\* and not destroyed, is bound to the other node
C25_RemovedAndMoved ==
    \E n \in NodeIds, m \in NodeIds :
        /\ m # n
        /\ Emitted(log, E("removedNode", n, ""))
        /\ Emitted(log, E("emit", "playerMove", m))
        /\ Removed(mgr, n)
        /\ reg /\ pl.state # "DESTROYED" /\ pl.node = m
\* the outcomes of fetch() that the request is to be retried on
Retried == {"TimeoutError", "AbortError", "UND_ERR_CONNECT_TIMEOUT", "ECONNREFUSED"}

\* C26: a request whose fetch() times out or is refused is retried after
\* 500 ms x attempt while attempt < retryAmount and fails otherwise; a retry is
\* attempt + 1 and never beyond retryAmount; a response is never retried, and
\* a non-2xx response throws an error that carries its status.
C26_Retry ==
    [][(inflight # <<>> /\ inflight' # <<>>)
       => LET r == inflight[1]
              after == inflight'[1]
          IN /\ \A e \in Retried :
                   (r.phase = "fetch" /\ log'[1] = E("step", "fetchFailed", e))
                   => IF r.attempt < nodes[RestNode].retryAmount
                      THEN after.phase = "sleep" /\ after.delay = RetryDelay * r.attempt
                      ELSE after.phase = "thrown"
             /\ log'[1].a = "retry"
                => after.attempt = r.attempt + 1 /\ after.attempt <= nodes[RestNode].retryAmount
             /\ log'[1].a = "fetchResponded"
                => /\ after.phase \in {"returned", "thrown"}
                   /\ after.phase = "thrown" <=> after.status \notin 200..299
                   /\ after.status \in StatusCodes]_vars

\* C26 witness: with retryAmount = MaxRetry every attempt timed out, and the
\* request failed at attempt retryAmount
C26_TimedOutAfterRetries ==
    /\ inflight # <<>>
    /\ inflight[1].phase = "thrown"
    /\ inflight[1].error = "Request timed out"
    /\ inflight[1].attempt = nodes[RestNode].retryAmount
    /\ inflight[1].attempt = MaxRetry

\* C27: a 404 response on a session/player path, received while the node is
\* READY, leaves the node not READY.
C27_NotFoundInvalidatesSession ==
    [][(/\ inflight # <<>>
        /\ inflight[1].phase = "fetch"
        /\ inflight[1].endpoint = SessionPath
        /\ log'[1].a = "fetchResponded"
        /\ inflight'[1].status = 404
        /\ nodes[RestNode].connected /\ nodes[RestNode].sessionId # NULL)
       => ~(nodes'[RestNode].connected /\ nodes'[RestNode].sessionId # NULL)]_vars

\* C27 witness: the 404 came while the socket was closing, and the node was
\* disconnected and lost its session
C27_ClosingSocketDisconnected ==
    /\ inflight # <<>>
    /\ inflight[1].status = 404
    /\ Emitted(log, E("disconnect", RestNode, "4004"))
    /\ ~nodes[RestNode].connected
    /\ nodes[RestNode].sessionId = NULL
\* the value the method called in this step returned
Returned == log'[2].b

Prefix(seq, n) == SubSeq(seq, 1, IF Len(seq) < n THEN Len(seq) ELSE n)

\* C29: the history never holds more than 20 tracks, and it is ordered
\* most-recent-first: a step leaves it as it was, empties it (clear), or puts
\* the track that stopped being current at its front and keeps the 20 most
\* recent entries.
C29_History ==
    [][/\ Len(pl'.q.previousTracks) <= HistoryLimit
       /\ \/ pl'.q.previousTracks = pl.q.previousTracks
          \/ pl'.q.previousTracks = <<>> /\ log'[1] = E("step", "clear", "")
          \/ /\ pl.q.current # NULL
             /\ pl'.q.previousTracks
                  = Prefix(<<pl.q.current>> \o pl.q.previousTracks, HistoryLimit)]_vars

\* C29 witness: a full history of 20 tracks took one more track at its front
\* and lost its oldest
C29_OldestDropped ==
    /\ Len(pl.q.previousTracks) = HistoryLimit
    /\ pl.q.previousTracks[1] = "B"
    /\ pl.q.previousTracks[2] = "B"
    /\ SubSeq(pl.q.previousTracks, 3, HistoryLimit) = History(HistoryLimit - 2)

\* C30: add(tracks) with an array of tracks, on a player that is not
\* destroyed and has a current track, appends all of them in order.
C30_AddAppendsAll ==
    [][\A ts \in AddInputs :
          (/\ log'[1] = E("step", "add", ts[1])
           /\ pl.state # "DESTROYED"
           /\ pl.q.current # NULL)
          => pl'.q.tracks = pl.q.tracks \o ts]_vars

\* C30 witness: add(["B", "A"]) on a player with a current track left only B
\* upcoming
C30_OnlyFirstAdded ==
    /\ log[1] = E("step", "add", "B")
    /\ pl.state # "DESTROYED"
    /\ pl.q.current # NULL
    /\ pl.q.tracks = <<"B">>
    /\ Emitted(log, E("emit", "trackAdd", ""))
\* C31: clearQueue() on a player that is not destroyed removes every
\* upcoming track and leaves current as it was.
C31_ClearQueueKeepsCurrent ==
    [][(log'[1] = E("step", "clearQueue", "") /\ pl.state # "DESTROYED")
       => /\ pl'.q.tracks = <<>>
          /\ pl'.q.current = pl.q.current]_vars

\* C31 witness: clearQueue() on the player that was playing A with B upcoming
\* left it playing with no upcoming track, no current track and no history
C31_CurrentCleared ==
    /\ log = <<E("step", "clearQueue", ""), E("emit", "queueClear", "")>>
    /\ pl.state = "PLAYING" /\ pl.playing
    /\ pl.q.tracks = <<>>
    /\ pl.q.current = NULL
    /\ pl.q.previousTracks = <<>>
\* C32: DESTROYED is terminal: a player whose state is DESTROYED keeps that
\* state through every step, whatever completes or arrives.
C32_DestroyedIsTerminal ==
    [][pl.state = "DESTROYED" => pl'.state = "DESTROYED"]_vars
\* C32 witness: the play PATCH succeeded while the DELETE of destroy() was
\* still in flight, and the player is PLAYING again
C32_PlayingAfterDestroy ==
    /\ log[1] = E("rest", "play", "true")
    /\ pl.state = "PLAYING"
    /\ \E i \in 1..Len(inflight) : inflight[i].kind = "destroy"
\* the REST round-trips that command handlers make
CommandKinds == {"play", "stop", "pause", "seek", "moveDelete", "move", "destroy"}

\* C33: when a command of the caller (play, stop, skip, destroy) sends a REST
\* request, no REST round-trip of a command handler is in flight for the
\* player.
C33_CommandsSerialized ==
    [][(/\ log'[1].t = "step"
        /\ log'[1].a \in {"play", "stop", "skip", "destroy"}
        /\ Len(inflight') > Len(inflight))
       => \A i \in 1..Len(inflight) : inflight[i].kind \notin CommandKinds]_vars

\* C33 witness: destroy() has sent its DELETE while the PATCH of play() is
\* in flight
C33_TwoRoundTrips ==
    /\ log[1] = E("step", "destroy", "")
    /\ Len(inflight) = 2
    /\ inflight[1].kind = "play"
    /\ inflight[2].kind = "destroy"
\* C34: handling TrackEndEvent{replaced} on a player that is not destroyed
\* leaves current, playing and state as they were and adds nothing to the
\* history.
C34_ReplacedKeepsCurrent ==
    [][(/\ log'[1] = E("step", "TrackEndEvent", "replaced")
        /\ pl.state # "DESTROYED"
        /\ nodes["n1"].players)
       => /\ pl'.q.current = pl.q.current
          /\ pl'.playing = pl.playing
          /\ pl'.state = pl.state
          /\ pl'.q.previousTracks = pl.q.previousTracks]_vars

\* C34 witness: the node plays the track that replaced another one, and the
\* TrackStartEvent is handled with no current track: trackStart carries no
\* track, and the new track is the newest entry of the history
C34_TrackStartWithoutTrack ==
    /\ log[1] = E("step", "TrackStartEvent", "")
    /\ Emitted(log, E("emit", "trackStart", NULL))
    /\ srv # NULL
    /\ pl.q.current = NULL
    /\ pl.q.previousTracks # <<>>
    /\ pl.q.previousTracks[1] = srv

\* C35: handling a TrackEndEvent whose reason is stopped, replaced or cleanup
\* polls no track, sends no PATCH and emits no queueEnd.
C35_NoProgression ==
    [][\A reason \in {"stopped", "replaced", "cleanup"} :
          (log'[1] = E("step", "TrackEndEvent", reason) /\ pl.state # "DESTROYED")
          => /\ pl'.q.tracks = pl.q.tracks
             /\ Len(inflight') = Len(inflight)
             /\ ~Emitted(log', E("emit", "queueEnd", ""))]_vars

\* C35 witness: the TrackEndEvent{stopped} that follows stop() was handled, no
\* track is left, and queueEnd was emitted
C35_QueueEndOnStopped ==
    /\ log[1] = E("step", "TrackEndEvent", "stopped")
    /\ Emitted(log, E("emit", "queueEnd", ""))
    /\ pl.q.current = NULL
    /\ pl.q.tracks = <<>>
    /\ pl.state = "STOPPED"
\* C39: assigning null to a Queue's current adds no entry to the history.
C39_NullAddsNoHistory ==
    [][(log'[1] = E("step", "current", "") /\ pl'.q.current = NULL)
       => pl'.q.previousTracks = pl.q.previousTracks]_vars

\* C39 witness: current was assigned null and the history, empty at
\* construction, holds one track
C39_ClearedCurrentInHistory ==
    /\ log[1] = E("step", "current", "")
    /\ pl.q.current = NULL
    /\ Len(pl.q.previousTracks) = 1
\* C36: a CONNECTING player moves to WAITING_FOR_SERVER only on a voice state
\* update naming the channel recorded by connect(); an update naming another
\* channel leaves the state and the recorded channel as they were.
C36_HandshakeChannel ==
    [][(pl.state = "CONNECTING" /\ pl.voiceChannelId # NULL)
       => /\ pl'.state = "WAITING_FOR_SERVER"
             => log'[1] = E("step", "voiceStateUpdate", pl.voiceChannelId)
          /\ \A c \in Channels \ {pl.voiceChannelId} :
                log'[1] = E("step", "voiceStateUpdate", c)
                => pl'.state = "CONNECTING" /\ pl'.voiceChannelId = pl.voiceChannelId]_vars

\* C36 witness: connect() for one channel is pending (the platform's answer
\* to its op 4 payload is still to be delivered), the update that was handled
\* names the other channel, and the player waits for the voice server with
\* that other channel recorded
C36_AdvancedOnOtherChannel ==
    \E c \in Channels :
        /\ log[1].t = "step"
        /\ log[1].a = "voiceStateUpdate"
        /\ log[1].b \in Channels \ {c}
        /\ pl.state = "WAITING_FOR_SERVER"
        /\ pl.voiceChannelId = log[1].b
        /\ pl.resolver
        /\ gw.ch = c
        /\ \E i \in 1..(Len(gw.q) - 1) :
              gw.q[i] = E("vsu", c, "v1") /\ gw.q[i + 1].t = "vsrv"
\* C37: the close event of a socket that a caller's disconnect() closed or
\* terminated never schedules a reconnect of that node.
C37_NoReconnectAfterDisconnect ==
    [][\A n \in NodeIds :
          log'[1] = E("step", "staleClose", n)
          => (nodes'[n].reconnectTimer => nodes[n].reconnectTimer)]_vars

\* C37 witness: the close event of a disconnected node's socket was handled
\* and the node's reconnect timer is armed
C37_ReconnectScheduled ==
    \E n \in NodeIds :
        /\ log[1] = E("step", "staleClose", n)
        /\ nodes[n].reconnectTimer
        /\ nodes[n].ws = NULL
        /\ nodes[n].reconnectAttempt = 1

\* C38: a node is connected only while its socket is open and it has a
\* session id.
C38_ConnectedMeansReady ==
    \A n \in NodeIds :
        nodes[n].connected => nodes[n].ws = "open" /\ nodes[n].sessionId # NULL

\* C38 witness: the ready frame of a socket the node had disconnected was
\* handled, and the node is connected with a session id and no socket
C38_ConnectedWithoutSocket ==
    \E n \in NodeIds :
        /\ log[1] = E("step", "lateReady", n)
        /\ nodes[n].connected
        /\ nodes[n].sessionId # NULL
        /\ nodes[n].ws = NULL
\* the step taken was the catch block of play() after a failed PATCH, and
\* the queue progression it started sent the next play PATCH
PlayRetried ==
    /\ log[1] = E("rest", "play", "false")
    /\ \E i \in 2..Len(log) : log[i].t = "patch" /\ log[i].a # NULL

\* C40: queue progression terminates: from some point on no failed play PATCH
\* is followed by another play PATCH.
C40_ProgressionTerminates == <>[]~PlayRetried

\* C40 witness: with QUEUE loop a failed play PATCH was followed by the next
\* one so often that the history holds nothing but the tracks retried
C40_RetriedOverAndOver ==
    /\ log[1] = E("rest", "play", "false")
    /\ inflight # <<>>
    /\ inflight[Len(inflight)].kind = "play"
    /\ pl.loop = LOOP_QUEUE
    /\ nodes["n1"].connected
    /\ pl.q.current = "A"
    /\ pl.q.tracks = <<>>
    /\ pl.q.previousTracks = [i \in 1..HistoryLimit |-> "A"]
====
